---- MODULE Spec2Model ----
(***************************************************************************)
(* File-to-database-table converter: the identifier sanitizer, the column  *)
(* type inferrer, the table materializer (create_table_from_dataframe) and *)
(* the batch worker (FileToDBGUI.convert_batch), together with the part of *)
(* the database session they drive through one cursor.                     *)
(*                                                                         *)
(* Text is a sequence of one-character strings, so that trimming, quoting  *)
(* and parsing are computed character by character.  A cell is a record    *)
(* [na, s]: na is TRUE for pd.NA, s is the cell's text otherwise.          *)
(***************************************************************************)
EXTENDS Integers, Sequences, FiniteSets, TLC

(***************************************************************************)
(* Bounds of the model.                                                    *)
(***************************************************************************)
MaxRows == 2
MaxFiles == 2
MaxCells == 3
MaxNameLen == 4

(***************************************************************************)
(* Characters and text.                                                    *)
(***************************************************************************)
Digits == {"0", "1", "2", "3", "4", "5", "6", "7", "8", "9"}
LowerLetters ==
    {"a", "b", "c", "d", "e", "f", "g", "h", "i", "j", "k", "l", "m",
     "n", "o", "p", "q", "r", "s", "t", "u", "v", "w", "x", "y", "z"}
Uppers == <<"A", "B", "C", "D", "E", "F", "G", "H", "I", "J", "K", "L", "M",
            "N", "O", "P", "Q", "R", "S", "T", "U", "V", "W", "X", "Y", "Z">>
Lowers == <<"a", "b", "c", "d", "e", "f", "g", "h", "i", "j", "k", "l", "m",
            "n", "o", "p", "q", "r", "s", "t", "u", "v", "w", "x", "y", "z">>
Whitespace == {" ", "\t"}

IsDigit(c) == c \in Digits
IsSpace(c) == c \in Whitespace

\* str.lower() on one character
LowerChar(c) ==
    IF \E i \in 1..Len(Uppers) : Uppers[i] = c
    THEN Lowers[CHOOSE i \in 1..Len(Uppers) : Uppers[i] = c]
    ELSE c

lower(s) == [i \in 1..Len(s) |-> LowerChar(s[i])]

\* the characters of s at the positions a..b (empty when a > b)
Slice(s, a, b) == [i \in 1..(b - a + 1) |-> s[a + i - 1]]

\* the first position >= i of s that holds no character of set (Len(s)+1 if none)
SkipSet(s, i, set) ==
    CHOOSE j \in i..(Len(s) + 1) :
        /\ \A k \in i..(j - 1) : s[k] \in set
        /\ (j = Len(s) + 1 \/ s[j] \notin set)

\* the last position <= i of s that holds no character of set (0 if none)
SkipSetBack(s, i, set) ==
    CHOOSE j \in 0..i :
        /\ \A k \in (j + 1)..i : s[k] \in set
        /\ (j = 0 \/ s[j] \notin set)

\* str.strip(chars): leading and trailing characters of set removed
StripSet(s, set) ==
    LET a == SkipSet(s, 1, set)
        b == SkipSetBack(s, Len(s), set)
    IN  IF a > b THEN << >> ELSE Slice(s, a, b)

\* str.strip()
strip(s) == StripSet(s, Whitespace)

\* the concatenation of a sequence of texts
RECURSIVE Concat(_)
Concat(parts) ==
    IF parts = << >> THEN << >> ELSE Head(parts) \o Concat(Tail(parts))

(***************************************************************************)
(* sanitize_name (src/src/utils.py).                                       *)
(***************************************************************************)
\* re.sub(r'\s+', '_', name): every maximal run of whitespace becomes one "_"
RECURSIVE SubWhitespace(_)
SubWhitespace(s) ==
    IF s = << >> THEN << >>
    ELSE IF IsSpace(s[1])
         THEN <<"_">> \o SubWhitespace(Slice(s, SkipSet(s, 1, Whitespace), Len(s)))
         ELSE <<s[1]>> \o SubWhitespace(Tail(s))

\* re.sub(r'[^a-z0-9_]', '', name)
IsIdentChar(c) == c \in LowerLetters \cup Digits \cup {"_"}
RemoveSpecial(s) == SelectSeq(s, IsIdentChar)

\* mutant: the col_ prefix is decided before the underscores are stripped
sanitize_name_prefix_first(name) ==
    LET n1 == lower(name)
        n2 == SubWhitespace(n1)
        n3 == RemoveSpecial(n2)
        n4 == IF n3 # << >> /\ IsDigit(n3[1]) THEN <<"c", "o", "l", "_">> \o n3 ELSE n3
        n5 == StripSet(n4, {"_"})
    IN  IF n5 = << >> THEN <<"u", "n", "n", "a", "m", "e", "d">> ELSE n5

sanitize_name(name) ==
    LET n1 == lower(name)
        n2 == SubWhitespace(n1)
        n3 == RemoveSpecial(n2)
        n4 == StripSet(n3, {"_"})
        n5 == IF n4 # << >> /\ IsDigit(n4[1]) THEN <<"c", "o", "l", "_">> \o n4 ELSE n4
    IN  IF n5 = << >> THEN <<"u", "n", "n", "a", "m", "e", "d">> ELSE n5

(***************************************************************************)
(* Cells and SQL types.                                                    *)
(***************************************************************************)
NA == [na |-> TRUE, s |-> << >>]
Val(t) == [na |-> FALSE, s |-> t]

NVARCHAR == "NVARCHAR(MAX)"
BIGINT == "BIGINT"
FLOAT == "FLOAT"
\* the types the preview dialog offers as overrides
sql_types ==
    {"NVARCHAR(MAX)", "BIGINT", "FLOAT", "INT", "DECIMAL(18,2)", "DATE", "DATETIME", "BIT"}

(***************************************************************************)
(* Python's float(text): the text is trimmed; an optional sign; then       *)
(* inf, infinity, nan (any case) or a decimal literal                      *)
(* digits [. [digits]] | . digits, with an optional exponent e[sign]digits.*)
(***************************************************************************)
SpecialFloats ==
    {<<"i", "n", "f">>, <<"n", "a", "n">>, <<"i", "n", "f", "i", "n", "i", "t", "y">>}

\* s[i..] is an exponent part reaching the end of s, or is empty
IsExponentTail(s, i) ==
    \/ i = Len(s) + 1
    \/ /\ i <= Len(s)
       /\ s[i] \in {"e", "E"}
       /\ LET j == IF i + 1 <= Len(s) /\ s[i + 1] \in {"+", "-"} THEN i + 2 ELSE i + 1
              k == SkipSet(s, j, Digits)
          IN  j <= Len(s) /\ k > j /\ k = Len(s) + 1

\* an unsigned decimal literal with optional exponent
IsUnsignedDecimal(s) ==
    LET a == SkipSet(s, 1, Digits)                \* after the integer digits
        hasInt == a > 1
        dot == a <= Len(s) /\ s[a] = "."
        b == IF dot THEN SkipSet(s, a + 1, Digits) ELSE a   \* after the fraction
        hasFrac == dot /\ b > a + 1
    IN  /\ s # << >>
        /\ hasInt \/ hasFrac
        /\ IsExponentTail(s, b)

Unsigned(s) == IF s # << >> /\ s[1] \in {"+", "-"} THEN Tail(s) ELSE s

\* float(text) returns (does not raise ValueError)
FloatParses(text) ==
    LET u == Unsigned(strip(text))
    IN  lower(u) \in SpecialFloats \/ IsUnsignedDecimal(u)

\* float(text) is inf, -inf or nan: int(float(text)) raises
FloatIsSpecial(text) == lower(Unsigned(strip(text))) \in SpecialFloats

(***************************************************************************)
(* int(float(text)) against the signed 64-bit range, for an integral       *)
(* literal (no ".", no exponent).  float() rounds to 53 significant bits:  *)
(* a positive value rounds to 2^63 (out of range) from                     *)
(* 9223372036854775296 on; a negative value rounds to -2^63 (in range)     *)
(* down to -9223372036854776832.                                           *)
(***************************************************************************)
PosLimit == <<"9","2","2","3","3","7","2","0","3","6","8","5","4","7","7","5","2","9","5">>
NegLimit == <<"9","2","2","3","3","7","2","0","3","6","8","5","4","7","7","6","8","3","2">>

DigitValue(c) == CHOOSE n \in 0..9 : Slice(<<"0","1","2","3","4","5","6","7","8","9">>, n + 1, n + 1) = <<c>>

\* a <= b for digit strings of equal length
DigitsLE(a, b) ==
    \/ a = b
    \/ \E i \in 1..Len(a) :
          /\ \A k \in 1..(i - 1) : a[k] = b[k]
          /\ DigitValue(a[i]) < DigitValue(b[i])

\* the digits of an integral literal, sign and leading zeros removed
Magnitude(text) ==
    LET u == Unsigned(strip(text))
        z == SkipSet(u, 1, {"0"})
    IN  IF z > Len(u) THEN <<"0">> ELSE Slice(u, z, Len(u))

IsNegative(text) == LET t == strip(text) IN t # << >> /\ t[1] = "-"

\* -9223372036854775808 <= int(float(text)) <= 9223372036854775807
FitsBigint(text) ==
    LET m == Magnitude(text)
        limit == IF IsNegative(text) THEN NegLimit ELSE PosLimit
    IN  \/ Len(m) < Len(limit)
        \/ Len(m) = Len(limit) /\ DigitsLE(m, limit)

(***************************************************************************)
(* infer_column_type (src/src/file_processor.py).                          *)
(***************************************************************************)
IsPresent(cell) == ~cell.na

\* mutant: the absent cells stay in the column
dropna_none(series) == series

\* series.dropna()
dropna(series) == SelectSeq(series, IsPresent)

\* val_str.startswith('0') and len(val_str) > 1 and val_str[1].isdigit()
LeadingZero(val_str) ==
    Len(val_str) > 1 /\ val_str[1] = "0" /\ IsDigit(val_str[2])

\* '.' in val_str or 'e' in val_str.lower() or 'E' in val_str
LooksDecimal(val_str) ==
    \E i \in 1..Len(val_str) : val_str[i] \in {".", "e", "E"}

\* mutant: the scan stops at the first value marked as having decimals
RECURSIVE ScanValues_decimal_stops(_, _, _)
ScanValues_decimal_stops(non_null, i, has_decimals) ==
    IF i > Len(non_null)
    THEN [all_numeric |-> TRUE, has_decimals |-> FALSE, has_leading_zeros |-> FALSE]
    ELSE LET val_str == strip(non_null[i].s)
         IN  IF LeadingZero(val_str)
             THEN [all_numeric |-> FALSE, has_decimals |-> FALSE,
                   has_leading_zeros |-> TRUE]
             ELSE IF ~FloatParses(val_str)
             THEN [all_numeric |-> FALSE, has_decimals |-> FALSE,
                   has_leading_zeros |-> FALSE]
             ELSE IF LooksDecimal(val_str)
             THEN [all_numeric |-> TRUE, has_decimals |-> TRUE,
                   has_leading_zeros |-> FALSE]
             ELSE ScanValues_decimal_stops(non_null, i + 1, FALSE)

\* the for loop over non_null from position i, with its two breaks
RECURSIVE ScanValues(_, _, _)
ScanValues(non_null, i, has_decimals) ==
    IF i > Len(non_null)
    THEN [all_numeric |-> TRUE, has_decimals |-> has_decimals, has_leading_zeros |-> FALSE]
    ELSE LET val_str == strip(non_null[i].s)
         IN  IF LeadingZero(val_str)
             THEN [all_numeric |-> FALSE, has_decimals |-> has_decimals,
                   has_leading_zeros |-> TRUE]
             ELSE IF ~FloatParses(val_str)
             THEN [all_numeric |-> FALSE, has_decimals |-> has_decimals,
                   has_leading_zeros |-> FALSE]
             ELSE ScanValues(non_null, i + 1, has_decimals \/ LooksDecimal(val_str))

infer_column_type(series) ==
    LET non_null == dropna(series)
        scan == ScanValues(non_null, 1, FALSE)
    IN  IF Len(non_null) = 0 THEN NVARCHAR
        ELSE IF scan.has_leading_zeros \/ ~scan.all_numeric THEN NVARCHAR
        ELSE IF scan.has_decimals THEN FLOAT
        ELSE IF \E i \in 1..Len(non_null) : FloatIsSpecial(non_null[i].s)
             THEN NVARCHAR          \* int(float(v)) raises, caught by the bare except
        ELSE IF \A i \in 1..Len(non_null) : FitsBigint(non_null[i].s)
             THEN BIGINT            \* min_val and max_val both in range
        ELSE NVARCHAR

(***************************************************************************)
(* Dictionaries (dict.get, assignment, deletion) as functions.             *)
(***************************************************************************)
EmptyMap == << >>
Get(map, key, default) == IF key \in DOMAIN map THEN map[key] ELSE default
Put(map, key, value) ==
    [k \in DOMAIN map \cup {key} |-> IF k = key THEN value ELSE map[k]]
Remove(map, key) == [k \in DOMAIN map \ {key} |-> map[k]]

(***************************************************************************)
(* Data frames: [columns, rows], every row as long as columns.             *)
(***************************************************************************)
\* len(df)
NRows(df) == Len(df.rows)
\* the position of the first column called column_name
ColumnIndex(df, column_name) ==
    CHOOSE j \in 1..Len(df.columns) :
        /\ df.columns[j] = column_name
        /\ \A k \in 1..(j - 1) : df.columns[k] # column_name
\* df[column_name]
Series(df, column_name) ==
    [i \in 1..NRows(df) |-> df.rows[i][ColumnIndex(df, column_name)]]

(***************************************************************************)
(* create_table_from_dataframe (src/src/database.py): the statements.      *)
(***************************************************************************)
KwNULL == <<"N", "U", "L", "L">>
Quote == "'"

\* mutant: the quotes of the text are left as they are
escape_quotes_none(s) == s

\* str(v).replace("'", "''")
escape_quotes(s) ==
    Concat([i \in 1..Len(s) |-> IF s[i] = Quote THEN <<Quote, Quote>> ELSE <<s[i]>>])

\* the final name of a column: the rename override if any
final_col_name(column_name, column_name_map) ==
    Get(column_name_map, column_name, column_name)

\* mutant: the type override is not consulted
col_type_of_inferred(df, column_name, column_type_map) ==
    infer_column_type(Series(df, column_name))

\* the type of a column: the type override if any, else the inferred type
col_type_of(df, column_name, column_type_map) ==
    IF column_name \in DOMAIN column_type_map
    THEN column_type_map[column_name]
    ELSE infer_column_type(Series(df, column_name))

\* the dict column_types after the loop over df.columns (a later duplicate
\* of a column name overwrites the earlier entry)
ColumnTypes(df, column_type_map) ==
    [c \in {df.columns[j] : j \in 1..Len(df.columns)} |->
        col_type_of(df, c, column_type_map)]

\* mutant: an override entry for a column df does not have adds a column
sql_columns_with_stale(df, column_name_map, column_type_map) ==
    [j \in 1..Len(df.columns) |->
        [name |-> final_col_name(df.columns[j], column_name_map),
         type |-> col_type_of(df, df.columns[j], column_type_map)]]
    \o (IF \E c \in DOMAIN column_type_map : \A j \in 1..Len(df.columns) : df.columns[j] # c
        THEN LET c == CHOOSE c \in DOMAIN column_type_map :
                          \A j \in 1..Len(df.columns) : df.columns[j] # c
             IN  <<[name |-> final_col_name(c, column_name_map),
                    type |-> column_type_map[c]]>>
        ELSE << >>)

\* sql_columns: one "[final name] type" per column of df, in df's order
sql_columns(df, column_name_map, column_type_map) ==
    [j \in 1..Len(df.columns) |->
        [name |-> final_col_name(df.columns[j], column_name_map),
         type |-> col_type_of(df, df.columns[j], column_type_map)]]

\* one entry of the VALUES list
format_value(v, col_type) ==
    IF v.na THEN KwNULL
    ELSE IF col_type \in {BIGINT, FLOAT} THEN v.s
    ELSE <<Quote>> \o escape_quotes(v.s) \o <<Quote>>

\* mutant: the rows are taken from the last to the first
insert_values_reversed(df, i, types) ==
    [j \in 1..Len(df.columns) |->
        format_value(df.rows[NRows(df) + 1 - i][j], types[df.columns[j]])]

\* the VALUES list of the row at position i (zip(df.columns, row.values))
insert_values(df, i, types) ==
    [j \in 1..Len(df.columns) |-> format_value(df.rows[i][j], types[df.columns[j]])]

NoCols == << >>
NoValues == << >>
DropStmt(t) == [op |-> "drop", table |-> t, cols |-> NoCols, values |-> NoValues]
CreateStmt(t, cols) == [op |-> "create", table |-> t, cols |-> cols, values |-> NoValues]
InsertStmt(t, values) == [op |-> "insert", table |-> t, cols |-> NoCols, values |-> values]
CommitStmt == [op |-> "commit", table |-> << >>, cols |-> NoCols, values |-> NoValues]

(***************************************************************************)
(* The database session behind cursor.execute and cursor.commit (pyodbc,   *)
(* autocommit off): what each statement of the materializer does to the    *)
(* session's tables, and which statements the engine rejects.              *)
(***************************************************************************)
NullValue == [k |-> "null", v |-> << >>]
TextValue(t) == [k |-> "text", v |-> t]
NumValue(t) == [k |-> "num", v |-> t]
BadValue == [k |-> "error", v |-> << >>]

\* the body of a string literal holds quotes only in doubled pairs
RECURSIVE QuotedBodyOk(_)
QuotedBodyOk(b) ==
    IF b = << >> THEN TRUE
    ELSE IF b[1] = Quote
         THEN Len(b) >= 2 /\ b[2] = Quote /\ QuotedBodyOk(Slice(b, 3, Len(b)))
         ELSE QuotedBodyOk(Tail(b))

\* the text a string literal's body denotes: '' reads as '
RECURSIVE Unescape(_)
Unescape(b) ==
    IF b = << >> THEN << >>
    ELSE IF b[1] = Quote THEN <<Quote>> \o Unescape(Slice(b, 3, Len(b)))
    ELSE <<b[1]>> \o Unescape(Tail(b))

\* an SQL numeric literal: optional sign, digits, optional fraction and exponent
IsSqlNumber(token) == IsUnsignedDecimal(Unsigned(strip(token)))

\* the value an entry of a VALUES list denotes
SqlLiteral(token) ==
    LET t == strip(token)
    IN  IF lower(t) = lower(KwNULL) THEN NullValue
        ELSE IF t # << >> /\ t[1] = Quote
        THEN IF Len(t) >= 2 /\ t[Len(t)] = Quote /\ QuotedBodyOk(Slice(t, 2, Len(t) - 1))
             THEN TextValue(Unescape(Slice(t, 2, Len(t) - 1)))
             ELSE BadValue
        ELSE IF IsSqlNumber(t) THEN NumValue(t)
        ELSE BadValue

IntegerTypes == {"BIGINT", "INT"}
NumericTypes == {"BIGINT", "INT", "FLOAT"}

\* the digits of a numeric literal before its fraction
IntegerPart(t) == Slice(t, 1, SkipSet(t, 1, Digits \cup {"+", "-"}) - 1)

\* the value stored in a column of type type for a literal: implicit conversion
SqlConvert(lit, type) ==
    IF lit.k \in {"null", "error"} THEN lit
    ELSE IF type = NVARCHAR THEN TextValue(lit.v)
    ELSE IF type \in NumericTypes
    THEN IF ~IsSqlNumber(lit.v) THEN BadValue
         ELSE IF type \in IntegerTypes
              THEN IF lit.k = "text" /\ LooksDecimal(lit.v) THEN BadValue
                   ELSE NumValue(IntegerPart(strip(lit.v)))
              ELSE NumValue(strip(lit.v))
    ELSE BadValue

NoTables == << >>

\* IF OBJECT_ID(t, 'U') IS NOT NULL DROP TABLE t
SqlDrop(tables, t) == Remove(tables, t)

\* CREATE TABLE t (cols): rejected for an existing table, an empty column
\* list or two columns of one name (names compare case-insensitively)
SqlCreateOk(tables, t, cols) ==
    /\ t \notin DOMAIN tables
    /\ Len(cols) >= 1
    /\ \A i, j \in 1..Len(cols) : lower(cols[i].name) = lower(cols[j].name) => i = j
SqlCreate(tables, t, cols) == Put(tables, t, [cols |-> cols, rows |-> << >>])

\* the row INSERT INTO t VALUES (values) stores
SqlRow(table, values) ==
    [j \in 1..Len(values) |-> SqlConvert(SqlLiteral(values[j]), table.cols[j].type)]
\* INSERT INTO t VALUES (values): rejected for a missing table, a VALUES list
\* of another length than the column list, or a value that does not convert
SqlInsertOk(tables, t, values) ==
    /\ t \in DOMAIN tables
    /\ Len(values) = Len(tables[t].cols)
    /\ \A j \in 1..Len(values) : SqlRow(tables[t], values)[j].k # "error"
SqlInsert(tables, t, values) ==
    [tables EXCEPT ![t].rows = Append(@, SqlRow(tables[t], values))]

(***************************************************************************)
(* get_dataframes (src/src/file_processor.py).  A file is a record         *)
(* [name, readable, sheets]: its base name, whether pandas can open and    *)
(* parse it, and its sheets [name, columns, rows] as they stand in the     *)
(* file, every cell a text (the empty text for an empty cell).             *)
(***************************************************************************)
\* os.path.splitext(name): the name is cut before its last dot, unless the
\* dot leads the name
LastDot(name) ==
    IF \E i \in 2..Len(name) : name[i] = "."
    THEN CHOOSE i \in 2..Len(name) :
            name[i] = "." /\ \A k \in (i + 1)..Len(name) : name[k] # "."
    ELSE Len(name) + 1
splitext(name) ==
    <<Slice(name, 1, LastDot(name) - 1), Slice(name, LastDot(name), Len(name))>>

ext_csv == <<".", "c", "s", "v">>
ext_xls == <<".", "x", "l", "s">>
ext_xlsx == <<".", "x", "l", "s", "x">>
key_sheet1 == <<"s", "h", "e", "e", "t", "1">>

\* sep.join(texts)
RECURSIVE Join(_, _)
Join(texts, sep) ==
    IF texts = << >> THEN << >>
    ELSE IF Len(texts) = 1 THEN texts[1]
    ELSE texts[1] \o <<sep>> \o Join(Tail(texts), sep)

\* the fields pandas finds in the lines of a CSV file written with file.sep:
\* read with another delimiter, every line is one field
csv_fields(file, delimiter) ==
    LET sheet == file.sheets[1]
    IN  IF delimiter = file.sep THEN sheet
        ELSE [name |-> sheet.name,
              columns |-> <<Join(sheet.columns, file.sep)>>,
              rows |-> [i \in 1..Len(sheet.rows) |-> <<Join(sheet.rows[i], file.sep)>>]]

\* pd.read_csv / pd.read_excel with dtype=str, keep_default_na=False, then
\* df.replace('', pd.NA) and the sanitized column names
read_sheet(sheet) ==
    [columns |-> [j \in 1..Len(sheet.columns) |-> sanitize_name(sheet.columns[j])],
     rows |-> [i \in 1..Len(sheet.rows) |->
                 [j \in 1..Len(sheet.rows[i]) |->
                     IF sheet.rows[i][j] = << >> THEN NA ELSE Val(sheet.rows[i][j])]]]

\* dataframes[key] = df: a key already present keeps its place
DictSet(frames, key, df) ==
    IF \E p \in 1..Len(frames) : frames[p].key = key
    THEN [p \in 1..Len(frames) |->
            IF frames[p].key = key THEN [key |-> key, df |-> df] ELSE frames[p]]
    ELSE Append(frames, [key |-> key, df |-> df])

\* the loop over excel_file.sheet_names, from sheet k on
RECURSIVE read_excel_sheets(_, _, _)
read_excel_sheets(file, k, frames) ==
    IF k > Len(file.sheets) THEN frames
    ELSE read_excel_sheets(file, k + 1,
            DictSet(frames, sanitize_name(file.sheets[k].name), read_sheet(file.sheets[k])))

Raised(error) == [error |-> error, frames |-> << >>]
Returned(frames) == [error |-> "none", frames |-> frames]

\* the body of get_dataframes, CSV files read with the given delimiter
read_file(file, delimiter) ==
    LET file_extension == lower(splitext(file.name)[2])
    IN  IF file_extension = ext_csv
        THEN IF ~file.readable THEN Raised("ReadError")
             ELSE Returned(DictSet(<< >>, key_sheet1, read_sheet(csv_fields(file,
                                     delimiter))))
        ELSE IF file_extension \in {ext_xls, ext_xlsx}
        THEN IF ~file.readable THEN Raised("ReadError")
             ELSE Returned(read_excel_sheets(file, 1, << >>))
        ELSE Raised("ValueError")

\* get_dataframes(file_path): pd.read_csv with its default delimiter
get_dataframes(file) == read_file(file, ",")

\* get_dataframes(file_path, delimiter=delimiter), the reader gui_main.py and
\* preview_dialog.py are written against: CSV files are read with delimiter
get_dataframes_delimiter(file, delimiter) == read_file(file, delimiter)

(***************************************************************************)
(* The inputs of the model.                                                *)
(***************************************************************************)
c_name == <<"n", "a", "m", "e">>
c_zip == <<"z", "i", "p">>
c_gone == <<"g", "o", "n", "e">>
t_7 == <<"7">>
t_42 == <<"4", "2">>
t_7_5 == <<"7", ".", "5">>
t_07 == <<"0", "7">>
t_OB == <<"O", Quote, "B">>
t_NULL == <<"N", "U", "L", "L">>
t_people == <<"p", "e", "o", "p", "l", "e">>

\* rows of a sheet with the columns name, zip
SampleRows ==
    {<<Val(t_OB), Val(t_07)>>,
     <<Val(t_7), Val(t_7_5)>>,
     <<Val(t_NULL), NA>>}

\* the data frames of at most MaxRows rows
DataFrames ==
    {[columns |-> <<c_name, c_zip>>, rows |-> r] :
        r \in UNION {[1..n -> SampleRows] : n \in 0..MaxRows}}

\* the overrides of a sheet as the preview dialog leaves them: none; a
\* rename with its type; a rename onto another column's name; a stale entry
\* with a numeric type forced on a text column; a type forced on all columns
SheetMaps ==
    {<<EmptyMap, EmptyMap>>,
     <<[c \in {c_zip} |-> <<"Z", "I", "P">>], [c \in {c_zip} |-> NVARCHAR]>>,
     <<[c \in {c_name} |-> <<"Z", "i", "p">>], EmptyMap>>,
     <<[c \in {c_gone} |-> <<"x">>],
       [c \in {c_name, c_gone} |-> IF c = c_name THEN BIGINT ELSE "INT"]>>,
     <<EmptyMap, [c \in {c_name, c_zip} |-> "INT"]>>}

\* the files of the model: a CSV file of two rows, a workbook of two sheets,
\* a file of an unsupported type, a workbook that cannot be opened; a file
\* stands for its path
f_people ==
    [name |-> <<"P", "e", "o", "p", "l", "e", ".", "c", "s", "v">>, readable |-> TRUE,
     sep |-> ",",
     sheets |-> <<[name |-> << >>,
                   columns |-> <<<<"N", "a", "m", "e">>, <<"Z", "i", "p">>>>,
                   rows |-> <<<<t_7, t_07>>, <<t_OB, << >>>>>>]>>]
f_sales ==
    [name |-> <<"s", "a", "l", "e", "s", ".", "x", "l", "s", "x">>, readable |-> TRUE,
     sep |-> ",",
     sheets |-> <<[name |-> <<"Q", "1">>, columns |-> <<<<"A", "m", "t">>>>,
                   rows |-> <<<<t_7_5>>, <<t_42>>>>],
                  [name |-> <<"Q", "2">>, columns |-> <<<<"A", "m", "t">>>>,
                   rows |-> <<<<t_7>>>>]>>]
f_notes ==
    [name |-> <<"n", "o", "t", "e", "s", ".", "t", "x", "t">>, readable |-> TRUE,
     sep |-> ",", sheets |-> << >>]
f_broken ==
    [name |-> <<"o", "l", "d", ".", "x", "l", "s">>, readable |-> FALSE,
     sep |-> ",", sheets |-> << >>]
Files == {f_people, f_sales, f_notes, f_broken}

\* a workbook whose name and sheet names need sanitizing
f_report ==
    [name |-> <<"2", "0", "2", "4", " ", "R", "e", "p", ".", "X", "L", "S", "X">>,
     readable |-> TRUE,
     sep |-> ",",
     sheets |-> <<[name |-> <<"2", "n", "d", " ", "H", "1">>, columns |-> <<<<"A",
                  "m", "t">>>>,
                   rows |-> <<<<t_42>>>>],
                  [name |-> <<"Q", "-", "1", "!">>, columns |-> <<<<"A", "m", "t">>>>,
                   rows |-> <<<<t_7>>>>]>>]

\* a workbook with two sheets whose names sanitize to the same key
f_twins ==
    [name |-> <<"t", "w", "i", "n", "s", ".", "x", "l", "s">>, readable |-> TRUE,
     sep |-> ",",
     sheets |-> <<[name |-> <<"A", " ", "b">>, columns |-> <<<<"A", "m", "t">>>>,
                   rows |-> <<<<t_42>>>>],
                  [name |-> <<"a", "_", "b">>, columns |-> <<<<"A", "m", "t">>>>,
                   rows |-> <<<<t_7_5>>, <<t_7>>>>]>>]

\* a CSV file named like the first sheet of sales.xlsx
f_sales_q1 ==
    [name |-> <<"S", "a", "l", "e", "s", " ", "Q", "1", ".", "c", "s", "v">>,
     readable |-> TRUE, sep |-> ",",
     sheets |-> <<[name |-> << >>, columns |-> <<<<"A", "m", "t">>>>,
                   rows |-> <<<<t_42>>>>]>>]

\* the file queues: at most MaxFiles files, none twice (add_files skips a
\* file that is already queued), at least one (start_conversion refuses an
\* empty queue)
FileQueues ==
    {q \in UNION {[1..n -> Files \cup {f_sales_q1}] : n \in 1..MaxFiles} :
        \A i, j \in 1..Len(q) : q[i] = q[j] => i = j}

key_q1 == <<"q", "1">>
c_amt == <<"a", "m", "t">>

\* column_overrides[file_path][sheet_name] = {'columns': ..., 'types': ...}
OverridesFor(file, sheet_key, column_name_map, column_type_map) ==
    [f \in {file.name} |->
        [k \in {sheet_key} |-> [columns |-> column_name_map, types |-> column_type_map]]]

(***************************************************************************)
(* State.                                                                  *)
(***************************************************************************)
VARIABLES
    db,             \* the tables made durable by a commit
    work,           \* the tables as the open session sees them
    call,           \* the arguments of the running create_table_from_dataframe
    mpc,            \* where that call stands
    row_idx,        \* rows of df inserted so far by that call (idx of iterrows)
    column_types,   \* its dict column_types
    stmts,          \* the statements executed on the cursor, with their outcome
    before,         \* the durable tables when the call started
    column_overrides,   \* FileToDBGUI.column_overrides
    csv_delimiters, \* FileToDBGUI.csv_delimiters
    reader_kw,      \* whether the imported get_dataframes takes delimiter=
    drop_existing_var,  \* FileToDBGUI.drop_existing_var, the check box
    conn_alive,     \* whether the server still answers on the connection
    series,         \* infer_column_type: the column it is called with
    col_type,       \* infer_column_type: the type it returned
    names,          \* sanitize_name: an input and the result of each further call
    file_list,      \* convert_batch: the files of the batch
    file_index,     \* the position in file_list of the file being processed
    dataframes,     \* the sheets get_dataframes returned for that file
    sheet_idx,      \* the position in dataframes of the sheet being processed
    successful_files,
    failed_files,
    bpc,            \* where convert_batch stands
    conn,           \* the connection of the batch: "none", "open", "closed"
    attempted,      \* the files whose turn of the file loop has started
    file_queue,     \* FileToDBGUI.file_queue
    file_queue_selection,   \* the selected position of the queue, 0 for None
    buttons,        \* state of the convert, add, remove and clear buttons
    dialog,         \* the open DataPreviewDialog (loaded_with: the delimiter its
                    \* dataframes were read with), or NoDialog
    gui_event,      \* the last handler that wrote to column_overrides, with
                    \* what it was called on
    message_queue,  \* FileToDBGUI.message_queue
    running         \* the convert_batch threads that have not ended

pure_vars == <<series, col_type, names>>
gui_vars == <<file_queue, file_queue_selection, buttons, dialog, gui_event>>
ui_vars == <<gui_vars, message_queue, running>>

NoDialog == [open |-> FALSE]
NoEvent == [op |-> "none"]
mat_vars == <<db, work, call, mpc, row_idx, column_types, stmts, before>>
batch_vars ==
    <<file_list, file_index, dataframes, sheet_idx, successful_files, failed_files,
      bpc, conn, attempted>>
caller_vars == <<column_overrides, csv_delimiters, reader_kw, drop_existing_var,
                 conn_alive, pure_vars, ui_vars, batch_vars>>

\* self.column_overrides.get(file_path, {}).get(sheet_name, {})
SheetOverrides(file_path, sheet_name) ==
    Get(Get(column_overrides, file_path, EmptyMap), sheet_name, EmptyMap)

NoCall ==
    [df |-> [columns |-> << >>, rows |-> << >>], table_name |-> << >>,
     column_name_map |-> EmptyMap, column_type_map |-> EmptyMap, unit |-> <<0, 0>>]

\* a statement as the log keeps it
Logged(stmt, ok) ==
    [op |-> stmt.op, table |-> stmt.table, cols |-> stmt.cols, values |-> stmt.values,
     ok |-> ok, unit |-> call.unit]

\* entering create_table_from_dataframe(df, table_name, cursor, maps)
EnterCall(df, table_name, column_name_map, column_type_map, unit) ==
    /\ call' = [df |-> df, table_name |-> table_name,
                column_name_map |-> column_name_map,
                column_type_map |-> column_type_map, unit |-> unit]
    /\ mpc' = "drop"
    /\ row_idx' = 0
    /\ column_types' = EmptyMap
    /\ before' = db

(***************************************************************************)
(* create_table_from_dataframe, one action per cursor call.  The engine    *)
(* may reject any statement (connection lost, lock, permission): fail.     *)
(***************************************************************************)
\* cursor.execute / cursor.commit: whether the statement raises.  A
\* statement may fail on a working connection; on a lost one it always does
ExecuteFails == IF conn_alive THEN BOOLEAN ELSE {TRUE}

\* mutant: the table is not dropped before it is created
MatDrop_skipped ==
    /\ mpc = "drop"
    /\ mpc' = "create"
    /\ UNCHANGED <<db, work, call, row_idx, column_types, stmts, before, caller_vars>>

\* mutant: the table is dropped only when the check box is ticked
MatDrop_if_ticked ==
    /\ mpc = "drop"
    /\ \E fail \in ExecuteFails :
          LET stmt == DropStmt(call.table_name)
          IN  IF ~drop_existing_var
              THEN /\ mpc' = "create"
                   /\ UNCHANGED <<work, stmts>>
              ELSE IF fail
              THEN /\ mpc' = "raised"
                   /\ work' = work
                   /\ stmts' = Append(stmts, Logged(stmt, FALSE))
              ELSE /\ mpc' = "create"
                   /\ work' = SqlDrop(work, call.table_name)
                   /\ stmts' = Append(stmts, Logged(stmt, TRUE))
    /\ UNCHANGED <<db, call, row_idx, column_types, before, caller_vars>>

\* line 84: cursor.execute(IF OBJECT_ID(...) IS NOT NULL DROP TABLE ...)
MatDrop ==
    /\ mpc = "drop"
    /\ \E fail \in ExecuteFails :
          LET stmt == DropStmt(call.table_name)
          IN  IF fail
              THEN /\ mpc' = "raised"
                   /\ work' = work
                   /\ stmts' = Append(stmts, Logged(stmt, FALSE))
              ELSE /\ mpc' = "create"
                   /\ work' = SqlDrop(work, call.table_name)
                   /\ stmts' = Append(stmts, Logged(stmt, TRUE))
    /\ UNCHANGED <<db, call, row_idx, column_types, before, caller_vars>>

\* lines 86-119: the column loop and cursor.execute(create_table_sql)
MatCreate ==
    /\ mpc = "create"
    /\ \E fail \in ExecuteFails :
          LET cols == sql_columns(call.df, call.column_name_map, call.column_type_map)
              stmt == CreateStmt(call.table_name, cols)
          IN  IF fail \/ ~SqlCreateOk(work, call.table_name, cols)
              THEN /\ mpc' = "raised"
                   /\ work' = work
                   /\ stmts' = Append(stmts, Logged(stmt, FALSE))
              ELSE /\ mpc' = "insert"
                   /\ work' = SqlCreate(work, call.table_name, cols)
                   /\ stmts' = Append(stmts, Logged(stmt, TRUE))
    /\ column_types' = ColumnTypes(call.df, call.column_type_map)
    /\ UNCHANGED <<db, call, row_idx, before, caller_vars>>

\* mutant: a failed INSERT is logged and the loop goes on with the next row
MatInsert_swallowing ==
    /\ mpc = "insert"
    /\ row_idx < NRows(call.df)
    /\ \E fail \in ExecuteFails :
          LET values == insert_values(call.df, row_idx + 1, column_types)
              stmt == InsertStmt(call.table_name, values)
          IN  IF fail \/ ~SqlInsertOk(work, call.table_name, values)
              THEN /\ work' = work
                   /\ stmts' = Append(stmts, Logged(stmt, FALSE))
              ELSE /\ work' = SqlInsert(work, call.table_name, values)
                   /\ stmts' = Append(stmts, Logged(stmt, TRUE))
    /\ mpc' = "insert"
    /\ row_idx' = row_idx + 1
    /\ UNCHANGED <<db, call, column_types, before, caller_vars>>

\* lines 125-146: one turn of the row loop
MatInsert ==
    /\ mpc = "insert"
    /\ row_idx < NRows(call.df)
    /\ \E fail \in ExecuteFails :
          LET values == insert_values(call.df, row_idx + 1, column_types)
              stmt == InsertStmt(call.table_name, values)
          IN  IF fail \/ ~SqlInsertOk(work, call.table_name, values)
              THEN /\ mpc' = "raised"
                   /\ work' = work
                   /\ row_idx' = row_idx
                   /\ stmts' = Append(stmts, Logged(stmt, FALSE))
              ELSE /\ mpc' = "insert"
                   /\ work' = SqlInsert(work, call.table_name, values)
                   /\ row_idx' = row_idx + 1
                   /\ stmts' = Append(stmts, Logged(stmt, TRUE))
    /\ UNCHANGED <<db, call, column_types, before, caller_vars>>

\* line 148: cursor.commit() once the row loop is exhausted
MatCommit ==
    /\ mpc = "insert"
    /\ row_idx = NRows(call.df)
    /\ \E fail \in ExecuteFails :
          IF fail
          THEN /\ mpc' = "raised"
               /\ db' = db
               /\ stmts' = Append(stmts, Logged(CommitStmt, FALSE))
          ELSE /\ mpc' = "returned"
               /\ db' = work
               /\ stmts' = Append(stmts, Logged(CommitStmt, TRUE))
    /\ UNCHANGED <<work, call, row_idx, column_types, before, caller_vars>>

(***************************************************************************)
(* A caller that materializes one data frame after the other on one open   *)
(* cursor, as convert_file does for the sheets of its file: an exception   *)
(* ends the conversion, its connection is dropped and the server rolls     *)
(* the open transaction back.                                              *)
(***************************************************************************)
\* gui_main.py lines 652-659: the overrides of the sheet and
\* create_table_from_dataframe(df, table_name, cursor, maps)
MatCall ==
    /\ mpc \in {"idle", "returned"}
    /\ \E df \in DataFrames :
          LET sheet_overrides == SheetOverrides(f_people.name, key_sheet1)
          IN  EnterCall(df, t_people, Get(sheet_overrides, "columns", EmptyMap),
                        Get(sheet_overrides, "types", EmptyMap), <<0, 0>>)
    /\ stmts' = << >>
    /\ UNCHANGED <<db, work, caller_vars>>

\* gui_main.py lines 674-679: the except clause of convert_file
MatAbort ==
    /\ mpc = "raised"
    /\ mpc' = "idle"
    /\ work' = db
    /\ UNCHANGED <<db, call, row_idx, column_types, stmts, before, caller_vars>>

vars ==
    <<db, work, call, mpc, row_idx, column_types, stmts, before, column_overrides,
      csv_delimiters, reader_kw, drop_existing_var, conn_alive, pure_vars, ui_vars,
      file_list, file_index, dataframes, sheet_idx, successful_files,
      failed_files, bpc, conn, attempted>>

InitMat ==
    /\ db = NoTables
    /\ work = NoTables
    /\ call = NoCall
    /\ mpc = "idle"
    /\ row_idx = 0
    /\ column_types = EmptyMap
    /\ stmts = << >>
    /\ before = NoTables
    /\ column_overrides \in
          {OverridesFor(f_people, key_sheet1, o[1], o[2]) : o \in SheetMaps}
    /\ csv_delimiters = EmptyMap
    /\ reader_kw = FALSE
    /\ drop_existing_var = TRUE
    /\ conn_alive = TRUE
    /\ series = << >>
    /\ col_type = "none"
    /\ names = << >>
    /\ file_list = << >>
    /\ file_index = 0
    /\ dataframes = << >>
    /\ sheet_idx = 0
    /\ successful_files = 0
    /\ failed_files = << >>
    /\ bpc = "none"
    /\ conn = "open"
    /\ attempted = << >>
    /\ file_queue = << >>
    /\ file_queue_selection = 0
    /\ buttons = "normal"
    /\ dialog = NoDialog
    /\ gui_event = NoEvent
    /\ message_queue = << >>
    /\ running = 0

NextMat == MatCall \/ MatDrop \/ MatCreate \/ MatInsert \/ MatCommit \/ MatAbort

SpecMat == InitMat /\ [][NextMat]_vars

(***************************************************************************)
(* FileToDBGUI.convert_batch (src/src/gui_main.py), the worker thread of   *)
(* a batch: one connection, the files of file_list in turn, the sheets of  *)
(* a file in turn, an except clause around each file.                      *)
(***************************************************************************)
\* line 550: get_dataframes(file_path, delimiter=delimiter).  The function
\* of src/src/file_processor.py takes file_path alone and the call raises
\* TypeError; reader_kw is the reader that takes the delimiter
ReaderCall(file, delimiter) ==
    IF reader_kw THEN get_dataframes_delimiter(file, delimiter) ELSE Raised("TypeError")

\* failed_files.append((filename, str(e)))
Failure(file, error) == [filename |-> file.name, error |-> error]

\* str(e) of the exception a statement raised: the driver's message names the
\* lost connection when that is the cause
ExecuteError == IF conn_alive THEN "Error" ELSE "ConnectionError"

\* database.py lines 142-146: the except clause of the row loop logs the row
\* and re-raises with a bare raise: what create_table_from_dataframe
\* surfaces is the driver's exception as it is
RaisedError == [cause |-> ExecuteError]

\* mutant: the outer except clause leaves the buttons alone
failure_messages_silent == <<"show_error">>

\* lines 615-620: the messages of the outer except clause
failure_messages == <<"enable_buttons", "show_error">>

\* lines 531-535: get_db_connection(connection_name), conn.cursor(); a
\* failure is caught by the outer except clause (lines 615-620), which puts
\* enable_buttons and show_error on the message queue, and the thread ends
BatchConnect ==
    /\ bpc = "connect"
    /\ \E fail \in BOOLEAN :
          IF fail
          THEN /\ bpc' = "failed"
               /\ conn' = "none"
               /\ file_index' = file_index
               /\ message_queue' = message_queue \o failure_messages
               /\ running' = running - 1
          ELSE /\ bpc' = "file"
               /\ conn' = "open"
               /\ file_index' = 1
               /\ UNCHANGED <<message_queue, running>>
    /\ work' = db
    /\ UNCHANGED <<db, call, mpc, row_idx, column_types, stmts, before,
                   column_overrides,
                   csv_delimiters, reader_kw, drop_existing_var, conn_alive,
                   pure_vars, gui_vars, file_list, dataframes, sheet_idx,
                   successful_files, failed_files, attempted>>

\* mutant: a file that cannot be read ends the file loop
BatchRead_aborting ==
    /\ bpc = "file"
    /\ file_index <= Len(file_list)
    /\ LET file_path == file_list[file_index]
           delimiter == Get(csv_delimiters, file_path.name, ",")
           result == ReaderCall(file_path, delimiter)
       IN  IF result.error # "none"
           THEN /\ failed_files' = Append(failed_files, Failure(file_path, result.error))
                /\ file_index' = Len(file_list) + 1
                /\ bpc' = "file"
                /\ UNCHANGED <<dataframes, sheet_idx>>
           ELSE /\ dataframes' = result.frames
                /\ sheet_idx' = 0
                /\ bpc' = "sheets"
                /\ UNCHANGED <<failed_files, file_index>>
    /\ attempted' = Append(attempted, file_index)
    /\ UNCHANGED <<db, work, call, mpc, row_idx, column_types, stmts, before,
                   column_overrides, csv_delimiters, reader_kw, drop_existing_var,
                   conn_alive, pure_vars, ui_vars, file_list,
                   successful_files, conn>>

\* lines 537-555: the next file of file_list is read; an exception of the
\* reader goes to the except clause of the file (lines 583-585)
BatchRead ==
    /\ bpc = "file"
    /\ file_index <= Len(file_list)
    /\ LET file_path == file_list[file_index]
           delimiter == Get(csv_delimiters, file_path.name, ",")
           result == ReaderCall(file_path, delimiter)
       IN  IF result.error # "none"
           THEN /\ failed_files' = Append(failed_files, Failure(file_path, result.error))
                /\ file_index' = file_index + 1
                /\ bpc' = "file"
                /\ UNCHANGED <<dataframes, sheet_idx>>
           ELSE /\ dataframes' = result.frames
                /\ sheet_idx' = 0
                /\ bpc' = "sheets"
                /\ UNCHANGED <<failed_files, file_index>>
    /\ attempted' = Append(attempted, file_index)
    /\ UNCHANGED <<db, work, call, mpc, row_idx, column_types, stmts, before,
                   column_overrides, csv_delimiters, reader_kw, drop_existing_var,
                   conn_alive, pure_vars, ui_vars, file_list,
                   successful_files, conn>>

\* mutant: the sheet key is appended also for a file of one sheet
table_name_of_suffixed(base_table_name, sheet_name, frames) ==
    base_table_name \o <<"_">> \o sheet_name

\* lines 558-561 (main.py lines 355-358): the table name of a sheet
table_name_of(base_table_name, sheet_name, frames) ==
    IF Len(frames) = 1 THEN base_table_name
    ELSE base_table_name \o <<"_">> \o sheet_name

\* lines 557-574: the next sheet of the file, its table name, its overrides,
\* and the call of create_table_from_dataframe
BatchSheet ==
    /\ bpc = "sheets"
    /\ mpc \in {"idle", "returned"}
    /\ sheet_idx < Len(dataframes)
    /\ LET file_path == file_list[file_index]
           base_table_name == sanitize_name(splitext(file_path.name)[1])
           sheet_name == dataframes[sheet_idx + 1].key
           df == dataframes[sheet_idx + 1].df
           table_name == table_name_of(base_table_name, sheet_name, dataframes)
           sheet_overrides == SheetOverrides(file_path.name, sheet_name)
           column_name_map == Get(sheet_overrides, "columns", EmptyMap)
           column_type_map == Get(sheet_overrides, "types", EmptyMap)
       IN  EnterCall(df, table_name, column_name_map, column_type_map,
                     <<file_index, sheet_idx + 1>>)
    /\ sheet_idx' = sheet_idx + 1
    /\ UNCHANGED <<db, work, stmts, column_overrides, csv_delimiters, reader_kw,
                   drop_existing_var, conn_alive, pure_vars, ui_vars,
                   file_list, file_index, dataframes, successful_files, failed_files,
                   bpc, conn, attempted>>

\* lines 580-581: the sheet loop is exhausted, the file has succeeded
BatchFileDone ==
    /\ bpc = "sheets"
    /\ mpc \in {"idle", "returned"}
    /\ sheet_idx = Len(dataframes)
    /\ successful_files' = successful_files + 1
    /\ file_index' = file_index + 1
    /\ bpc' = "file"
    /\ mpc' = "idle"
    /\ UNCHANGED <<db, work, call, row_idx, column_types, stmts, before,
                   column_overrides, csv_delimiters, reader_kw, drop_existing_var,
                   conn_alive, pure_vars, ui_vars, file_list, dataframes,
                   sheet_idx, failed_files, conn, attempted>>

\* mutant: the except clause of a file goes on with the next sheet
BatchFileFailed_resuming ==
    /\ bpc = "sheets"
    /\ mpc = "raised"
    /\ IF sheet_idx < Len(dataframes)
       THEN /\ mpc' = "idle"
            /\ UNCHANGED <<failed_files, file_index, bpc>>
       ELSE /\ failed_files' = Append(failed_files,
                                      Failure(file_list[file_index], RaisedError.cause))
            /\ file_index' = file_index + 1
            /\ bpc' = "file"
            /\ mpc' = "idle"
    /\ UNCHANGED <<db, work, call, row_idx, column_types, stmts, before,
                   column_overrides, csv_delimiters, reader_kw, drop_existing_var,
                   conn_alive, pure_vars, ui_vars, file_list, dataframes,
                   sheet_idx, successful_files, conn, attempted>>

\* mutant: the except clause of a file closes the connection and opens a
\* new one for the next file
BatchFileFailed_reconnecting ==
    /\ bpc = "sheets"
    /\ mpc = "raised"
    /\ failed_files' = Append(failed_files, Failure(file_list[file_index], RaisedError.cause))
    /\ file_index' = file_index + 1
    /\ bpc' = "file"
    /\ mpc' = "idle"
    /\ work' = db
    /\ conn' = "closed"
    /\ UNCHANGED <<db, call, row_idx, column_types, stmts, before,
                   column_overrides, csv_delimiters, reader_kw, drop_existing_var,
                   conn_alive, pure_vars, ui_vars, file_list, dataframes,
                   sheet_idx, successful_files, attempted>>

\* lines 583-585: create_table_from_dataframe raised; the file has failed,
\* its remaining sheets are left, the loop goes on with the next file
BatchFileFailed ==
    /\ bpc = "sheets"
    /\ mpc = "raised"
    /\ failed_files' = Append(failed_files, Failure(file_list[file_index], RaisedError.cause))
    /\ file_index' = file_index + 1
    /\ bpc' = "file"
    /\ mpc' = "idle"
    /\ UNCHANGED <<db, work, call, row_idx, column_types, stmts, before,
                   column_overrides, csv_delimiters, reader_kw, drop_existing_var,
                   conn_alive, pure_vars, ui_vars, file_list, dataframes,
                   sheet_idx, successful_files, conn, attempted>>

\* lines 588-613: the file loop is exhausted; cursor.close(), conn.close()
\* (what the session has not committed is rolled back), the summary with its
\* enable_buttons and show_success or show_error messages, and the thread ends.
\* Closing a lost connection raises or not, as the driver has it; if it
\* raises, the outer except clause (lines 615-620) reports the batch failed
BatchClose ==
    /\ bpc = "file"
    /\ file_index > Len(file_list)
    /\ conn' = "closed"
    /\ work' = db
    /\ \E raises \in (IF conn_alive THEN {FALSE} ELSE BOOLEAN) :
          /\ bpc' = IF raises THEN "failed" ELSE "done"
          /\ message_queue' = message_queue \o
                (IF raises THEN failure_messages
                 ELSE <<"enable_buttons",
                        IF failed_files # << >> THEN "show_error" ELSE "show_success">>)
    /\ running' = running - 1
    /\ UNCHANGED <<db, call, mpc, row_idx, column_types, stmts, before,
                   column_overrides,
                   csv_delimiters, reader_kw, drop_existing_var, conn_alive,
                   pure_vars, gui_vars, file_list, file_index, dataframes,
                   sheet_idx, successful_files, failed_files, attempted>>

\* gui_main.py lines 159-165: the user ticks or unticks "Drop existing
\* tables if they exist"; start_conversion leaves the check box enabled
ToggleDropExisting ==
    /\ drop_existing_var' = ~drop_existing_var
    /\ UNCHANGED <<mat_vars, column_overrides, csv_delimiters, reader_kw,
                   conn_alive, pure_vars, ui_vars,
                   batch_vars>>

\* the overrides and delimiters the user has set before the batch starts
BatchOverrides ==
    {EmptyMap,
     OverridesFor(f_people, key_sheet1, EmptyMap, [c \in {c_name, c_zip} |-> "INT"]),
     OverridesFor(f_sales, key_q1, [c \in {c_amt} |-> <<"A", "m", "o", "u", "n", "t">>],
                  EmptyMap)}
BatchDelimiters == {EmptyMap, [f \in {f_people.name} |-> ";"]}

\* the connection stops working while the sheets of a file are being
\* materialized: the server rolls back what the session has not committed,
\* and nothing in convert_batch notices until a statement is executed
ConnectionLost ==
    /\ bpc = "sheets"
    /\ mpc # "raised"
    /\ conn_alive
    /\ conn_alive' = FALSE
    /\ work' = db
    /\ UNCHANGED <<db, call, mpc, row_idx, column_types, stmts, before,
                   column_overrides, csv_delimiters, reader_kw, drop_existing_var,
                   pure_vars, ui_vars, batch_vars>>

\* start_conversion (lines 486-523) has handed a copy of the queue to the
\* worker thread
Init ==
    /\ db = NoTables
    /\ work = NoTables
    /\ call = NoCall
    /\ mpc = "idle"
    /\ row_idx = 0
    /\ column_types = EmptyMap
    /\ stmts = << >>
    /\ before = NoTables
    /\ column_overrides \in BatchOverrides
    /\ csv_delimiters \in BatchDelimiters
    /\ reader_kw \in BOOLEAN
    /\ drop_existing_var = TRUE
    /\ conn_alive = TRUE
    /\ series = << >>
    /\ col_type = "none"
    /\ names = << >>
    /\ file_list \in FileQueues
    /\ file_index = 0
    /\ dataframes = << >>
    /\ sheet_idx = 0
    /\ successful_files = 0
    /\ failed_files = << >>
    /\ bpc = "connect"
    /\ conn = "none"
    /\ attempted = << >>
    /\ file_queue = file_list
    /\ file_queue_selection = 0
    /\ buttons = "disabled"
    /\ dialog = NoDialog
    /\ gui_event = NoEvent
    /\ message_queue = << >>
    /\ running = 1

Next ==
    \/ BatchConnect
    \/ BatchRead
    \/ BatchSheet
    \/ MatDrop
    \/ MatCreate
    \/ MatInsert
    \/ MatCommit
    \/ BatchFileDone
    \/ BatchFileFailed
    \/ BatchClose
    \/ ToggleDropExisting
    \/ ConnectionLost

Spec == Init /\ [][Next]_vars

(***************************************************************************)
(* main() of src/main.py, the command-line converter: one file, read by    *)
(* main.py's own get_dataframes(file_path), its sheets materialized in     *)
(* turn by main.py's create_table_from_dataframe(df, table_name, cursor),  *)
(* which is the one of database.py without override maps.  An exception    *)
(* goes to the one except clause and the process ends.                     *)
(***************************************************************************)
\* lines 342-346: the base table name and get_dataframes(file_path)
MainRead ==
    /\ bpc = "read"
    /\ LET result == get_dataframes(file_list[1])
       IN  IF result.error # "none"
           THEN /\ bpc' = "failed"
                /\ failed_files' = Append(failed_files, Failure(file_list[1], result.error))
                /\ UNCHANGED dataframes
           ELSE /\ bpc' = "connect"
                /\ dataframes' = result.frames
                /\ UNCHANGED failed_files
    /\ attempted' = Append(attempted, 1)
    /\ UNCHANGED <<mat_vars, column_overrides, csv_delimiters, reader_kw,
                   drop_existing_var, conn_alive, pure_vars, ui_vars, file_list, file_index,
                   sheet_idx,
                   successful_files, conn>>

\* lines 347-348: get_db_connection() and conn.cursor()
MainConnect ==
    /\ bpc = "connect"
    /\ \E fail \in BOOLEAN :
          IF fail
          THEN /\ bpc' = "failed"
               /\ conn' = "none"
               /\ UNCHANGED <<file_index, sheet_idx>>
          ELSE /\ bpc' = "sheets"
               /\ conn' = "open"
               /\ file_index' = 1
               /\ sheet_idx' = 0
    /\ work' = db
    /\ UNCHANGED <<db, call, mpc, row_idx, column_types, stmts, before,
                   column_overrides,
                   csv_delimiters, reader_kw, drop_existing_var, conn_alive,
                   pure_vars, ui_vars, file_list, dataframes,
                   successful_files, failed_files, attempted>>

\* lines 352-365: the next sheet, its table name and the call of
\* create_table_from_dataframe
MainSheet ==
    /\ bpc = "sheets"
    /\ mpc \in {"idle", "returned"}
    /\ sheet_idx < Len(dataframes)
    /\ LET base_table_name == sanitize_name(splitext(file_list[1].name)[1])
           sheet_name == dataframes[sheet_idx + 1].key
           df == dataframes[sheet_idx + 1].df
           table_name == table_name_of(base_table_name, sheet_name, dataframes)
       IN  EnterCall(df, table_name, EmptyMap, EmptyMap, <<1, sheet_idx + 1>>)
    /\ sheet_idx' = sheet_idx + 1
    /\ UNCHANGED <<db, work, stmts, column_overrides, csv_delimiters, reader_kw,
                   drop_existing_var, conn_alive, pure_vars, ui_vars, file_list, file_index,
                   dataframes,
                   successful_files, failed_files, bpc, conn, attempted>>

\* lines 369-376: the sheet loop is exhausted; cursor.close(), conn.close()
MainClose ==
    /\ bpc = "sheets"
    /\ mpc \in {"idle", "returned"}
    /\ sheet_idx = Len(dataframes)
    /\ bpc' = "done"
    /\ conn' = "closed"
    /\ work' = db
    /\ mpc' = "idle"
    /\ successful_files' = successful_files + 1
    /\ UNCHANGED <<db, call, row_idx, column_types, stmts, before, column_overrides,
                   csv_delimiters, reader_kw, drop_existing_var, conn_alive,
                   pure_vars, ui_vars, file_list, file_index,
                   dataframes, sheet_idx, failed_files, attempted>>

\* lines 378-383: the except clause; the process ends and the server rolls
\* back what the session has not committed
MainAbort ==
    /\ bpc = "sheets"
    /\ mpc = "raised"
    /\ bpc' = "failed"
    /\ conn' = "closed"
    /\ work' = db
    /\ mpc' = "idle"
    /\ failed_files' = Append(failed_files, Failure(file_list[1], "Error"))
    /\ UNCHANGED <<db, call, row_idx, column_types, stmts, before, column_overrides,
                   csv_delimiters, reader_kw, drop_existing_var, conn_alive,
                   pure_vars, ui_vars, file_list, file_index,
                   dataframes, sheet_idx, successful_files, attempted>>

\* the files a user may name at the prompt of line 334
\* a CSV file whose quantity column holds a number, an empty field and a
\* field of one space: the lines Item,Qty / a,7 / b, / c,<space>
f_stock ==
    [name |-> <<"s", "t", "o", "c", "k", ".", "c", "s", "v">>, readable |-> TRUE,
     sep |-> ",",
     sheets |-> <<[name |-> << >>,
                   columns |-> <<<<"I", "t", "e", "m">>, <<"Q", "t", "y">>>>,
                   rows |-> <<<<<<"a">>, t_7>>, <<<<"b">>, << >>>>, <<<<"c">>, <<" ">>>>>>]>>]

MainFiles == Files \cup {f_report, f_twins, f_stock}

InitMain ==
    /\ db = NoTables
    /\ work = NoTables
    /\ call = NoCall
    /\ mpc = "idle"
    /\ row_idx = 0
    /\ column_types = EmptyMap
    /\ stmts = << >>
    /\ before = NoTables
    /\ column_overrides = EmptyMap
    /\ csv_delimiters = EmptyMap
    /\ reader_kw = FALSE
    /\ drop_existing_var = TRUE
    /\ conn_alive = TRUE
    /\ series = << >>
    /\ col_type = "none"
    /\ names = << >>
    /\ file_list \in {<<f>> : f \in MainFiles}
    /\ file_index = 0
    /\ dataframes = << >>
    /\ sheet_idx = 0
    /\ successful_files = 0
    /\ failed_files = << >>
    /\ bpc = "read"
    /\ conn = "none"
    /\ attempted = << >>
    /\ file_queue = << >>
    /\ file_queue_selection = 0
    /\ buttons = "normal"
    /\ dialog = NoDialog
    /\ gui_event = NoEvent
    /\ message_queue = << >>
    /\ running = 0

NextMain ==
    \/ MainRead
    \/ MainConnect
    \/ MainSheet
    \/ MatDrop
    \/ MatCreate
    \/ MatInsert
    \/ MatCommit
    \/ MainClose
    \/ MainAbort

SpecMain == InitMain /\ [][NextMain]_vars

(***************************************************************************)
(* infer_column_type on its own: a column of at most MaxCells cells, and   *)
(* one call.                                                               *)
(***************************************************************************)
t_max64 == <<"9","2","2","3","3","7","2","0","3","6","8","5","4","7","7","5","8","0","7">>
t_max64_plus1 == <<"9","2","2","3","3","7","2","0","3","6","8","5","4","7","7","5","8","0","8">>

\* the cells of the columns handed to infer_column_type
InferCells ==
    {NA} \cup
    {Val(t) : t \in {t_7, t_07, <<"0">>, t_7_5, <<"1", "e", "3">>, t_OB,
                     <<" ", "4", "2", " ">>, <<"i", "n", "f">>, <<" ">>,
                     t_max64, t_max64_plus1, <<"-">> \o t_max64_plus1,
                     <<"-","9","2","2","3","3","7","2","0","3","6","8","5","4","7","7","5",
                       "8","0","9">>}}

\* col_type = infer_column_type(df[column_name], column_name)
InferCall ==
    /\ col_type = "none"
    /\ col_type' = infer_column_type(series)
    /\ UNCHANGED <<mat_vars, column_overrides, csv_delimiters, reader_kw,
                   drop_existing_var, conn_alive, series, names, batch_vars, ui_vars>>

InitInfer ==
    /\ db = NoTables
    /\ work = NoTables
    /\ call = NoCall
    /\ mpc = "idle"
    /\ row_idx = 0
    /\ column_types = EmptyMap
    /\ stmts = << >>
    /\ before = NoTables
    /\ column_overrides = EmptyMap
    /\ csv_delimiters = EmptyMap
    /\ reader_kw = FALSE
    /\ drop_existing_var = TRUE
    /\ conn_alive = TRUE
    /\ series \in UNION {[1..n -> InferCells] : n \in 0..MaxCells}
    /\ col_type = "none"
    /\ names = << >>
    /\ file_list = << >>
    /\ file_index = 0
    /\ dataframes = << >>
    /\ sheet_idx = 0
    /\ successful_files = 0
    /\ failed_files = << >>
    /\ bpc = "none"
    /\ conn = "none"
    /\ attempted = << >>
    /\ file_queue = << >>
    /\ file_queue_selection = 0
    /\ buttons = "normal"
    /\ dialog = NoDialog
    /\ gui_event = NoEvent
    /\ message_queue = << >>
    /\ running = 0

NextInfer == InferCall

SpecInfer == InitInfer /\ [][NextInfer]_vars

(***************************************************************************)
(* sanitize_name on its own: a name of at most MaxNameLen characters, the  *)
(* function applied to it, and applied again to its result.                *)
(***************************************************************************)
NameChars == {"A", "b", "7", "_", " ", "-"}

\* sanitize_name(name), the argument being the last name obtained
SanitizeCall ==
    /\ Len(names) \in 1..2
    /\ names' = Append(names, sanitize_name(names[Len(names)]))
    /\ UNCHANGED <<mat_vars, column_overrides, csv_delimiters, reader_kw,
                   drop_existing_var, conn_alive, series, col_type, batch_vars, ui_vars>>

InitSanitize ==
    /\ db = NoTables
    /\ work = NoTables
    /\ call = NoCall
    /\ mpc = "idle"
    /\ row_idx = 0
    /\ column_types = EmptyMap
    /\ stmts = << >>
    /\ before = NoTables
    /\ column_overrides = EmptyMap
    /\ csv_delimiters = EmptyMap
    /\ reader_kw = FALSE
    /\ drop_existing_var = TRUE
    /\ conn_alive = TRUE
    /\ series = << >>
    /\ col_type = "none"
    /\ \E x \in UNION {[1..n -> NameChars] : n \in 0..MaxNameLen} : names = <<x>>
    /\ file_list = << >>
    /\ file_index = 0
    /\ dataframes = << >>
    /\ sheet_idx = 0
    /\ successful_files = 0
    /\ failed_files = << >>
    /\ bpc = "none"
    /\ conn = "none"
    /\ attempted = << >>
    /\ file_queue = << >>
    /\ file_queue_selection = 0
    /\ buttons = "normal"
    /\ dialog = NoDialog
    /\ gui_event = NoEvent
    /\ message_queue = << >>
    /\ running = 0

NextSanitize == SanitizeCall

SpecSanitize == InitSanitize /\ [][NextSanitize]_vars

(***************************************************************************)
(* The window: the handlers of FileToDBGUI and of DataPreviewDialog on the *)
(* GUI thread, and the convert_batch thread that start_conversion          *)
(* launches.  The preview dialog holds the grab while it is open, so the   *)
(* handlers of the main window run only when it is closed; process_queue   *)
(* is a timer callback and runs either way.                                *)
(***************************************************************************)
\* the files the user can pick: a CSV file of one column and one row, and a
\* workbook of two such sheets
f_ids ==
    [name |-> <<"i", "d", "s", ".", "c", "s", "v">>, readable |-> TRUE, sep |-> ",",
     sheets |-> <<[name |-> << >>, columns |-> <<<<"I", "d">>>>, rows |-> <<<<t_7>>>>]>>]
f_book ==
    [name |-> <<"b", "o", "o", "k", ".", "x", "l", "s", "x">>, readable |-> TRUE,
     sep |-> ",",
     sheets |-> <<[name |-> <<"S", "1">>, columns |-> <<<<"A">>>>, rows |-> <<<<t_7>>>>],
                  [name |-> <<"S", "2">>, columns |-> <<<<"B">>>>, rows |-> <<<<t_42>>>>]>>]
GuiFiles == {f_ids, f_book}

\* the part of the state the handlers of the GUI thread leave alone
worker_vars == <<mat_vars, batch_vars, reader_kw, drop_existing_var, conn_alive, pure_vars,
                 message_queue, running>>

\* add_files (lines 331-363), one file chosen in the file dialog
add_files ==
    /\ ~dialog.open
    /\ buttons = "normal"
    /\ \E filename \in GuiFiles :
          /\ \A i \in 1..Len(file_queue) : file_queue[i] # filename
          /\ file_queue' = Append(file_queue, filename)
    /\ UNCHANGED <<worker_vars, column_overrides, csv_delimiters, file_queue_selection,
                   buttons, dialog, gui_event>>

\* _on_file_queue_click (lines 271-281); the position is counted from 1 here
on_file_queue_click ==
    /\ ~dialog.open
    /\ \E line_num \in 1..Len(file_queue) :
          /\ file_queue_selection # line_num
          /\ file_queue_selection' = line_num
    /\ UNCHANGED <<worker_vars, column_overrides, csv_delimiters, file_queue, buttons,
                   dialog, gui_event>>

\* remove_selected_files (lines 365-378)
remove_selected_files ==
    /\ ~dialog.open
    /\ buttons = "normal"
    /\ file_queue_selection \in 1..Len(file_queue)
    /\ file_queue' = [i \in 1..(Len(file_queue) - 1) |->
                        IF i < file_queue_selection THEN file_queue[i]
                        ELSE file_queue[i + 1]]
    /\ file_queue_selection' = 0
    /\ UNCHANGED <<worker_vars, column_overrides, csv_delimiters, buttons, dialog,
                   gui_event>>

\* clear_file_queue (lines 380-391): nothing happens on an empty queue
clear_file_queue ==
    /\ ~dialog.open
    /\ buttons = "normal"
    /\ Len(file_queue) # 0
    /\ file_queue' = << >>
    /\ file_queue_selection' = 0
    /\ column_overrides' = EmptyMap
    /\ gui_event' = [op |-> "clear"]
    /\ UNCHANGED <<worker_vars, csv_delimiters, buttons, dialog>>

\* preview_selected_file (lines 393-412) and DataPreviewDialog.__init__
\* (preview_dialog.py lines 15-119): the preview button is never disabled.
\* A reader that raises leaves no dialog and no trace
preview_selected_file ==
    /\ ~dialog.open
    /\ file_queue_selection \in 1..Len(file_queue)
    /\ LET file_path == file_queue[file_queue_selection]
           current_delimiter == Get(csv_delimiters, file_path.name, ",")
           result == ReaderCall(file_path, current_delimiter)
       IN  /\ result.error = "none"
           /\ column_overrides' =
                 IF file_path.name \in DOMAIN column_overrides THEN column_overrides
                 ELSE Put(column_overrides, file_path.name, EmptyMap)
           /\ dialog' = [open |-> TRUE, file_path |-> file_path,
                         is_csv |-> lower(splitext(file_path.name)[2]) = ext_csv,
                         current_delimiter |-> current_delimiter,
                         delimiter_var |-> current_delimiter,
                         dataframes |-> result.frames,
                         loaded_with |-> current_delimiter,
                         sheet_var |-> result.frames[1].key]
    /\ UNCHANGED <<worker_vars, csv_delimiters, file_queue, file_queue_selection,
                   buttons, gui_event>>

\* the sheet selector of the dialog (lines 90-98), which calls load_sheet
select_sheet ==
    /\ dialog.open
    /\ Len(dialog.dataframes) > 1
    /\ \E p \in 1..Len(dialog.dataframes) :
          /\ dialog.dataframes[p].key # dialog.sheet_var
          /\ dialog' = [dialog EXCEPT !.sheet_var = dialog.dataframes[p].key]
    /\ UNCHANGED <<worker_vars, column_overrides, csv_delimiters, file_queue,
                   file_queue_selection, buttons, gui_event>>

\* the delimiters of the selector (lines 65-71), two of them
Delimiters == {",", ";"}

\* reload_with_delimiter, the except clause (lines 286-290): the dialog after
\* a reload with new_delimiter has failed.  self.current_delimiter was
\* assigned new_delimiter before the try (line 276)
reload_failed(d, new_delimiter) ==
    [d EXCEPT !.current_delimiter = new_delimiter, !.delimiter_var = new_delimiter]

\* a radio button of the selector is chosen and reload_with_delimiter
\* (lines 267-290) runs.  The read may fail with this reader whatever the
\* delimiter: the file may be gone, or not parse with the new delimiter
reload_with_delimiter ==
    /\ dialog.open
    /\ dialog.is_csv
    /\ \E new_delimiter \in Delimiters, gone \in BOOLEAN :
          /\ new_delimiter # dialog.current_delimiter
          /\ LET result == IF gone THEN Raised("ReadError")
                           ELSE ReaderCall(dialog.file_path, new_delimiter)
             IN  IF result.error # "none"
                 THEN dialog' = reload_failed(dialog, new_delimiter)
                 ELSE dialog' = [dialog EXCEPT !.current_delimiter = new_delimiter,
                                               !.delimiter_var = new_delimiter,
                                               !.dataframes = result.frames,
                                               !.loaded_with = new_delimiter]
    /\ UNCHANGED <<worker_vars, column_overrides, csv_delimiters, file_queue,
                   file_queue_selection, buttons, gui_event>>

\* the sheet the dialog shows
DialogFrame == dialog.dataframes[CHOOSE p \in 1..Len(dialog.dataframes) :
                                    dialog.dataframes[p].key = dialog.sheet_var].df

\* what the user may have left in the name entries and type menus of the
\* columns of df: nothing changed, or every name typed over and TEXT chosen
TypedEdits(df) ==
    LET columns == {df.columns[j] : j \in 1..Len(df.columns)}
    IN  {[names |-> [c \in columns |-> c],
          types |-> [c \in columns |-> infer_column_type(Series(df, c))]],
         [names |-> [c \in columns |-> <<" ">> \o c \o <<" ", "X">>],
          types |-> [c \in columns |-> NVARCHAR]]}

\* mutant: Apply keeps the entries of the file's other sheets out
store_overrides_alone(store, file_path, sheet_name, entry) ==
    Put(store, file_path, Put(EmptyMap, sheet_name, entry))

\* apply_changes, lines 311-318: column_overrides[file_path][sheet_name] = ...
store_overrides(store, file_path, sheet_name, entry) ==
    Put(store, file_path, Put(Get(store, file_path, EmptyMap), sheet_name, entry))

\* apply_changes (lines 292-332)
apply_changes ==
    /\ dialog.open
    /\ \E edits \in TypedEdits(DialogFrame) :
          LET df == DialogFrame
              columns == {df.columns[j] : j \in 1..Len(df.columns)}
              column_name_map ==
                  [c \in {x \in columns : /\ strip(edits.names[x]) # << >>
                                          /\ strip(edits.names[x]) # x}
                      |-> strip(edits.names[c])]
              column_type_map == [c \in columns |-> edits.types[c]]
              entry == [columns |-> column_name_map, types |-> column_type_map]
          IN  /\ column_overrides' =
                    store_overrides(column_overrides, dialog.file_path.name,
                                    dialog.sheet_var, entry)
              /\ gui_event' = [op |-> "apply", file_path |-> dialog.file_path.name,
                               sheet_name |-> dialog.sheet_var, entry |-> entry]
    /\ csv_delimiters' =
          IF dialog.is_csv
          THEN Put(csv_delimiters, dialog.file_path.name, dialog.current_delimiter)
          ELSE csv_delimiters
    /\ dialog' = IF Len(dialog.dataframes) > 1 THEN dialog ELSE NoDialog
    /\ UNCHANGED <<worker_vars, file_queue, file_queue_selection, buttons>>

\* reset_defaults (lines 334-351), the question answered with yes
reset_defaults ==
    /\ dialog.open
    /\ LET file_path == dialog.file_path.name
           sheet_name == dialog.sheet_var
       IN  /\ column_overrides' =
                 IF /\ file_path \in DOMAIN column_overrides
                    /\ sheet_name \in DOMAIN column_overrides[file_path]
                 THEN Put(column_overrides, file_path,
                          Remove(column_overrides[file_path], sheet_name))
                 ELSE column_overrides
           /\ gui_event' = [op |-> "reset", file_path |-> file_path,
                            sheet_name |-> sheet_name]
    /\ UNCHANGED <<worker_vars, csv_delimiters, file_queue, file_queue_selection,
                   buttons, dialog>>

\* cancel (lines 353-355)
cancel ==
    /\ dialog.open
    /\ dialog' = NoDialog
    /\ UNCHANGED <<worker_vars, column_overrides, csv_delimiters, file_queue,
                   file_queue_selection, buttons, gui_event>>

\* mutant: the buttons are left enabled when the thread is launched
buttons_after_start_normal == "normal"

\* start_conversion, lines 507-511: the state of the four buttons
buttons_after_start == "disabled"

\* start_conversion (lines 486-523): a connection is selected and the files
\* of the queue exist; the thread gets a copy of the queue
start_conversion ==
    /\ ~dialog.open
    /\ buttons = "normal"
    /\ Len(file_queue) # 0
    /\ buttons' = buttons_after_start
    /\ running' = running + 1
    /\ file_list' = file_queue
    /\ file_index' = 0
    /\ dataframes' = << >>
    /\ sheet_idx' = 0
    /\ successful_files' = 0
    /\ failed_files' = << >>
    /\ bpc' = "connect"
    /\ conn' = "none"
    /\ attempted' = << >>
    /\ call' = NoCall
    /\ mpc' = "idle"
    /\ row_idx' = 0
    /\ column_types' = EmptyMap
    /\ stmts' = << >>
    /\ conn_alive' = TRUE
    /\ UNCHANGED <<db, work, before, column_overrides, csv_delimiters, reader_kw,
                   drop_existing_var, pure_vars, file_queue, file_queue_selection,
                   dialog, gui_event, message_queue>>

\* process_queue (lines 681-735), one message of the queue
process_queue ==
    /\ message_queue # << >>
    /\ message_queue' = Tail(message_queue)
    /\ buttons' = IF Head(message_queue) = "enable_buttons" THEN "normal" ELSE buttons
    /\ UNCHANGED <<mat_vars, batch_vars, reader_kw, drop_existing_var, conn_alive,
                   pure_vars, running, column_overrides, csv_delimiters, file_queue,
                   file_queue_selection, dialog, gui_event>>

\* FileToDBGUI.__init__ (lines 36-253): the window right after construction
InitPreview ==
    /\ db = NoTables
    /\ work = NoTables
    /\ call = NoCall
    /\ mpc = "idle"
    /\ row_idx = 0
    /\ column_types = EmptyMap
    /\ stmts = << >>
    /\ before = NoTables
    /\ column_overrides = EmptyMap
    /\ csv_delimiters = EmptyMap
    /\ reader_kw \in BOOLEAN
    /\ drop_existing_var = TRUE
    /\ conn_alive = TRUE
    /\ series = << >>
    /\ col_type = "none"
    /\ names = << >>
    /\ file_list = << >>
    /\ file_index = 0
    /\ dataframes = << >>
    /\ sheet_idx = 0
    /\ successful_files = 0
    /\ failed_files = << >>
    /\ bpc = "none"
    /\ conn = "none"
    /\ attempted = << >>
    /\ file_queue = << >>
    /\ file_queue_selection = 0
    /\ buttons = "normal"
    /\ dialog = NoDialog
    /\ gui_event = NoEvent
    /\ message_queue = << >>
    /\ running = 0

\* the steps of the convert_batch thread
WorkerStep ==
    \/ BatchConnect
    \/ BatchRead
    \/ BatchSheet
    \/ MatDrop
    \/ MatCreate
    \/ MatInsert
    \/ MatCommit
    \/ BatchFileDone
    \/ BatchFileFailed
    \/ BatchClose

\* the window while no conversion is started
NextPreview ==
    \/ add_files
    \/ on_file_queue_click
    \/ remove_selected_files
    \/ clear_file_queue
    \/ preview_selected_file
    \/ select_sheet
    \/ reload_with_delimiter
    \/ apply_changes
    \/ reset_defaults
    \/ cancel

SpecPreview == InitPreview /\ [][NextPreview]_vars

\* the window once the user has put ids.csv in the queue
InitGui ==
    /\ db = NoTables
    /\ work = NoTables
    /\ call = NoCall
    /\ mpc = "idle"
    /\ row_idx = 0
    /\ column_types = EmptyMap
    /\ stmts = << >>
    /\ before = NoTables
    /\ column_overrides = EmptyMap
    /\ csv_delimiters = EmptyMap
    /\ reader_kw \in BOOLEAN
    /\ drop_existing_var = TRUE
    /\ conn_alive = TRUE
    /\ series = << >>
    /\ col_type = "none"
    /\ names = << >>
    /\ file_list = << >>
    /\ file_index = 0
    /\ dataframes = << >>
    /\ sheet_idx = 0
    /\ successful_files = 0
    /\ failed_files = << >>
    /\ bpc = "none"
    /\ conn = "none"
    /\ attempted = << >>
    /\ file_queue = <<f_ids>>
    /\ file_queue_selection = 0
    /\ buttons = "normal"
    /\ dialog = NoDialog
    /\ gui_event = NoEvent
    /\ message_queue = << >>
    /\ running = 0

\* the window with its conversions
NextGui ==
    \/ on_file_queue_click
    \/ remove_selected_files
    \/ clear_file_queue
    \/ preview_selected_file
    \/ reload_with_delimiter
    \/ apply_changes
    \/ reset_defaults
    \/ cancel
    \/ start_conversion
    \/ process_queue
    \/ WorkerStep

SpecGui == InitGui /\ [][NextGui]_vars

\* the thread has a step to take until convert_batch returns
WorkerAlive == bpc \in {"connect", "file", "sheets"}

\* the thread is scheduled as long as it has a step to take, every call of
\* it returning: WF_vars(WorkerStep), with ENABLED <<WorkerStep>>_vars
\* written out as the state predicate WorkerAlive
WorkerFair == []<>(~WorkerAlive) \/ []<><<WorkerStep>>_vars

\* and the timer of process_queue (line 735) keeps firing
SpecGuiFair == SpecGui /\ WorkerFair /\ WF_vars(process_queue)






(***************************************************************************)
(* Properties of create_table_from_dataframe, checked under SpecMat.       *)
(* Under SpecMat the log stmts holds the statements of the current call.   *)
(***************************************************************************)
Table == call.table_name
SourceRows == NRows(call.df)
SourceCell(i, j) == call.df.rows[i][j]
\* the values of the j-th source column
SourceColumn(j) == [i \in 1..SourceRows |-> SourceCell(i, j)]
\* the type the j-th column resolves to: the override first, else inference
ResolvedType(j) ==
    LET c == call.df.columns[j]
    IN  IF c \in DOMAIN call.column_type_map
        THEN call.column_type_map[c]
        ELSE infer_column_type(SourceColumn(j))
\* the positions of the log that hold an INSERT, in order
InsertPositions == {p \in 1..Len(stmts) : stmts[p].op = "insert"}
\* the number of INSERTs logged up to position p
InsertRank(p) == Cardinality({q \in InsertPositions : q <= p})

\* a stored value is the value of a source cell: its text in a text column,
\* the number its trimmed text denotes in a numeric column
StoredIsSource(stored, cell) ==
    /\ stored.k = "null" <=> cell.na
    /\ ~cell.na => \/ stored.k = "text" /\ stored.v = cell.s
                   \/ stored.k = "num" /\ stored.v = strip(cell.s)

\* C1: when a call returns without error, the target table holds exactly the
\* N source rows, each stored value being the source value of its cell, and
\* NULL if and only if the source cell was absent.
C1_StoredEqualsSource ==
    mpc = "returned" =>
        /\ Table \in DOMAIN db
        /\ Len(db[Table].rows) = SourceRows
        /\ \A i \in 1..SourceRows : \A j \in 1..Len(call.df.columns) :
              StoredIsSource(db[Table].rows[i][j], SourceCell(i, j))

\* C3: commit is executed at most once per call and only after the INSERT of
\* every row has returned without error; after a failed INSERT the call
\* executes nothing more (no later INSERT, no commit) and ends by raising.
C3_CommitOnlyAfterAllInserts ==
    /\ Cardinality({p \in 1..Len(stmts) : stmts[p].op = "commit"}) <= 1
    /\ \A p \in 1..Len(stmts) :
          /\ stmts[p].op = "commit" =>
                /\ Cardinality({q \in InsertPositions : q < p /\ stmts[q].ok}) = SourceRows
                /\ \A q \in 1..(p - 1) : stmts[q].ok
          /\ (stmts[p].op = "insert" /\ ~stmts[p].ok) =>
                /\ p = Len(stmts)
                /\ mpc \in {"raised", "idle"}
    /\ mpc = "returned" => \A p \in 1..Len(stmts) : stmts[p].ok

C3_Witness ==
    /\ mpc = "raised"
    /\ Len(stmts) = 4
    /\ stmts[3].op = "insert" /\ stmts[3].ok
    /\ stmts[4].op = "insert" /\ ~stmts[4].ok
    /\ SourceRows = 2

\* the entry of a VALUES list carries a cell: the keyword NULL for an absent
\* cell, else the cell's text, bare or as a quoted literal
Carries(value, cell) ==
    IF cell.na THEN value = KwNULL
    ELSE \/ value = cell.s
         \/ value = <<Quote>> \o escape_quotes(cell.s) \o <<Quote>>

\* C6: a successful call on N rows executes exactly: one drop-if-exists of the
\* target table, one CREATE TABLE, N INSERTs of which the k-th carries the
\* k-th source row, one commit, in this order.
C6_StatementOrder ==
    mpc = "returned" =>
        /\ Len(stmts) = SourceRows + 3
        /\ stmts[1].op = "drop" /\ stmts[1].table = Table
        /\ stmts[2].op = "create" /\ stmts[2].table = Table
        /\ \A k \in 1..SourceRows :
              /\ stmts[2 + k].op = "insert" /\ stmts[2 + k].table = Table
              /\ Len(stmts[2 + k].values) = Len(call.df.columns)
              /\ \A j \in 1..Len(call.df.columns) :
                    Carries(stmts[2 + k].values[j], SourceCell(k, j))
        /\ stmts[SourceRows + 3].op = "commit"
        /\ \A p \in 1..Len(stmts) : stmts[p].ok

C6_Witness ==
    /\ mpc = "returned"
    /\ SourceRows = 2
    /\ call.df.rows[1] # call.df.rows[2]

\* C8: a run on a table an earlier run made durable ends with the table
\* holding this run's columns and exactly this run's N rows, each the row one
\* of this run's INSERTs stored; whether or not the table existed, it is not
\* there any more when the CREATE TABLE is executed, so the engine accepts it.
DistinctFinalNames ==
    LET cols == sql_columns(call.df, call.column_name_map, call.column_type_map)
    IN  \A i, j \in 1..Len(cols) : lower(cols[i].name) = lower(cols[j].name) => i = j
\* the columns of the logged CREATE TABLE, the values of the i-th logged INSERT
LoggedColumns == stmts[CHOOSE p \in 1..Len(stmts) : stmts[p].op = "create"].cols
LoggedValues(i) == stmts[CHOOSE p \in InsertPositions : InsertRank(p) = i].values
C8_RerunReplaces ==
    /\ mpc = "returned" =>
          /\ Table \in DOMAIN db
          /\ db[Table].cols = LoggedColumns
          /\ Len(db[Table].rows) = SourceRows
          /\ \A i \in 1..SourceRows :
                db[Table].rows[i] = SqlRow(db[Table], LoggedValues(i))
    /\ (mpc = "create" /\ DistinctFinalNames) =>
          SqlCreateOk(work, Table,
                      sql_columns(call.df, call.column_name_map, call.column_type_map))

C8_Witness ==
    /\ mpc = "returned"
    /\ Table \in DOMAIN before
    /\ Len(before[Table].rows) = 2
    /\ SourceRows = 1
    /\ before[Table].cols # db[Table].cols

\* C9: the CREATE TABLE lists exactly one (name, type) pair per source column,
\* in source order: the name is the rename override keyed by the column's
\* name if there is one, else the column's name; the type is the type
\* override keyed by the column's name if there is one, else the inferred one.
C9_CreateColumns ==
    \A p \in 1..Len(stmts) :
        stmts[p].op = "create" =>
            /\ Len(stmts[p].cols) = Len(call.df.columns)
            /\ \A j \in 1..Len(call.df.columns) :
                  LET c == call.df.columns[j]
                  IN  /\ stmts[p].cols[j].name =
                            (IF c \in DOMAIN call.column_name_map
                             THEN call.column_name_map[c] ELSE c)
                      /\ stmts[p].cols[j].type =
                            (IF c \in DOMAIN call.column_type_map
                             THEN call.column_type_map[c]
                             ELSE infer_column_type(SourceColumn(j)))

C9_Witness ==
    /\ Len(stmts) >= 2 /\ stmts[2].op = "create"
    /\ c_zip \in DOMAIN call.column_name_map
    /\ c_zip \in DOMAIN call.column_type_map
    /\ stmts[2].cols[1] = [name |-> c_name, type |-> BIGINT]
    /\ stmts[2].cols[2] = [name |-> <<"Z", "I", "P">>, type |-> NVARCHAR]

\* C10: every entry of every INSERT is decided by its cell and the resolved
\* type of its column: NULL for an absent cell, the bare text in a BIGINT or
\* FLOAT column, and in any other column a quoted literal with every quote
\* doubled, which denotes exactly the cell's text.
C10_ValueFormat ==
    \A p \in InsertPositions :
        \A j \in 1..Len(call.df.columns) :
            LET cell == SourceCell(InsertRank(p), j)
                value == stmts[p].values[j]
                body == Slice(value, 2, Len(value) - 1)
            IN  IF cell.na THEN value = KwNULL
                ELSE IF ResolvedType(j) \in {BIGINT, FLOAT} THEN value = cell.s
                ELSE /\ Len(value) >= 2
                     /\ value[1] = Quote /\ value[Len(value)] = Quote
                     /\ Len(body) = Len(cell.s)
                                    + Cardinality({i \in 1..Len(cell.s) : cell.s[i] = Quote})
                     /\ SqlLiteral(value) = TextValue(cell.s)

C10_Witness ==
    \E p \in InsertPositions :
        /\ stmts[p].values[1] = <<Quote, "O", Quote, Quote, "B", Quote>>
        /\ \E q \in InsertPositions :
              /\ stmts[q].values[2] = <<Quote, "7", ".", "5", Quote>>
              /\ call.column_type_map = [c \in {c_zip} |-> NVARCHAR]

(***************************************************************************)
(* Properties of convert_batch, checked under Spec.  Under Spec the log    *)
(* stmts holds the statements of the whole batch, each with its unit       *)
(* <<position of the file in file_list, position of the sheet>>.           *)
(***************************************************************************)
\* the r-th smallest position of a set of log positions
NthOf(S, r) == CHOOSE q \in S : Cardinality({x \in S : x <= q}) = r
\* the accepted INSERTs that the unit of the statement at p executed before p
UnitInserts(p) ==
    {q \in 1..(p - 1) :
        stmts[q].op = "insert" /\ stmts[q].ok /\ stmts[q].unit = stmts[p].unit}
\* the rows those INSERTs stored in the table
RowsBefore(p, table) ==
    [r \in 1..Cardinality(UnitInserts(p)) |->
        SqlRow(table, stmts[NthOf(UnitInserts(p), r)].values)]
FailedAt(p) == ~stmts[p].ok /\ stmts[p].op \in {"create", "insert"}
\* the number of sheets of the file at position f of file_list
SheetsOf(f) ==
    Len(ReaderCall(file_list[f], Get(csv_delimiters, file_list[f].name, ",")).frames)
\* unit u comes before unit v in file-then-sheet order, or is v
UnitLE(u, v) == u[1] < v[1] \/ (u[1] = v[1] /\ u[2] <= v[2])
Committed(u) ==
    \E q \in 1..Len(stmts) : stmts[q].op = "commit" /\ stmts[q].ok /\ stmts[q].unit = u

C4_EveryFileAttemptedOnce ==
    /\ Len(attempted) <= Len(file_list)
    /\ \A i \in 1..Len(attempted) : attempted[i] = i
    /\ (bpc = "file" /\ conn = "open") => Len(attempted) = file_index - 1
    /\ successful_files + Len(failed_files) <= Len(attempted)
    /\ bpc = "done" =>
          /\ Len(attempted) = Len(file_list)
          /\ successful_files + Len(failed_files) = Len(file_list)

\* a batch of two files has ended, its first file failed and its second
\* file was attempted
C4_Witness ==
    /\ bpc = "done"
    /\ Len(file_list) = 2
    /\ Len(failed_files) >= 1
    /\ failed_files[1].filename = file_list[1].name
    /\ attempted = <<1, 2>>

Restrict(map, df) ==
    [c \in {k \in DOMAIN map : \E j \in 1..Len(df.columns) : df.columns[j] = k} |-> map[c]]

\* C12: override entries keyed by a name that is no column of the data frame
\* change nothing: the CREATE TABLE and the INSERTs of a call are those
\* emitted for the maps without these entries, and a call that executes
\* all its statements without a rejection returns.
C12_StaleOverridesIgnored ==
    LET name_map == Restrict(call.column_name_map, call.df)
        type_map == Restrict(call.column_type_map, call.df)
    IN  /\ \A p \in 1..Len(stmts) :
              /\ stmts[p].op = "create" =>
                    stmts[p].cols = sql_columns(call.df, name_map, type_map)
              /\ stmts[p].op = "insert" =>
                    stmts[p].values =
                        insert_values(call.df, InsertRank(p), ColumnTypes(call.df, type_map))
        /\ mpc = "raised" => ~stmts[Len(stmts)].ok

\* a call with a stale rename and a stale type override has returned after
\* inserting a row
C12_Witness ==
    /\ mpc = "returned"
    /\ SourceRows >= 1
    /\ c_gone \in DOMAIN call.column_name_map
    /\ c_gone \in DOMAIN call.column_type_map

(***************************************************************************)
(* Properties of main(), checked under SpecMain: one file, file_index = 1. *)
(***************************************************************************)
\* the key of the sheet the current call materializes
CurrentKey == dataframes[sheet_idx].key
\* the table name the rule gives a sheet key of the file: the sanitized file
\* name without its extension, followed by "_" and the sanitized key unless
\* the file has yielded one sheet
RuleTableName(file, key, sheets) ==
    LET base_name == sanitize_name(splitext(file.name)[1])
    IN  IF sheets = 1 THEN base_name ELSE base_name \o <<"_">> \o sanitize_name(key)

\* C13: the target table of a sheet is the sanitized file name without its
\* extension when the file yields one sheet, else that name, "_" and the
\* sanitized sheet key; the key the reader returned is the sanitized sheet
\* name ('sheet1' for a CSV file), and every statement of the unit names
\* that table.
C13_TableName ==
    (bpc = "sheets" /\ sheet_idx >= 1) =>
        LET file == file_list[file_index]
            name == RuleTableName(file, CurrentKey, Len(dataframes))
        IN  /\ call.table_name = name
            /\ \/ CurrentKey = key_sheet1 /\ lower(splitext(file.name)[2]) = ext_csv
               \/ \E k \in 1..Len(file.sheets) :
                     CurrentKey = sanitize_name(file.sheets[k].name)
            /\ \A p \in 1..Len(stmts) :
                  (stmts[p].unit = <<file_index,
                                     sheet_idx>> /\ stmts[p].op # "commit") =>
                      stmts[p].table = name

\* the first sheet of the workbook "2024 Rep.XLSX", named "2nd H1", has been
\* materialized as col_2024_rep_col_2nd_h1
C13_Witness ==
    /\ mpc = "returned"
    /\ sheet_idx = 1
    /\ Len(dataframes) = 2
    /\ call.table_name =
          <<"c", "o", "l", "_", "2", "0", "2", "4", "_", "r", "e", "p", "_",
            "c", "o", "l", "_", "2", "n", "d", "_", "h", "1">>
    /\ call.table_name \in DOMAIN db

(***************************************************************************)
(* Properties of infer_column_type, checked under SpecInfer.               *)
(***************************************************************************)
\* the trimmed texts of the non-null cells of the column
Texts == {strip(series[i].s) : i \in {k \in 1..Len(series) : ~series[k].na}}
\* a text that starts with 0 followed by another digit
HasLeadingZero(t) == Len(t) >= 2 /\ t[1] = "0" /\ t[2] \in Digits
\* an integral literal: an optional sign and digits
IsIntegral(t) ==
    LET u == Unsigned(t) IN u # << >> /\ \A i \in 1..Len(u) : u[i] \in Digits
\* the integral literal t lies in [-9223372036854775808, 9223372036854775807]
InRange64(t) ==
    LET m == Magnitude(t)
        limit == IF IsNegative(t) THEN t_max64_plus1 ELSE t_max64
    IN  Len(m) < Len(limit) \/ (Len(m) = Len(limit) /\ DigitsLE(m, limit))

\* C14: a column with a non-null value whose trimmed text has a leading zero
\* or does not parse as a float is TEXT, wherever the value sits and whatever
\* was scanned before it; a column whose non-null values are all "0" is not
\* TEXT.
C14_NonNumericIsText ==
    col_type # "none" =>
        /\ (\E t \in Texts : HasLeadingZero(t) \/ ~FloatParses(t)) => col_type = NVARCHAR
        /\ Texts = {<<"0">>} => col_type = BIGINT

\* a column of a decimal, an integer and, last, a value with a leading zero
\* has been inferred
C14_Witness ==
    /\ col_type = NVARCHAR
    /\ series = <<Val(t_7_5), Val(t_7), Val(t_07)>>

\* C15: when every non-null value parses as a float and none has a leading
\* zero, the column is FLOAT exactly if a non-null value's text contains ".",
\* "e" or "E"; a column without a non-null value is TEXT.
C15_FloatIffDecimal ==
    col_type # "none" =>
        /\ (\A t \in Texts : FloatParses(t) /\ ~HasLeadingZero(t)) =>
              (col_type = FLOAT <=>
                  \E t \in Texts : \E i \in 1..Len(t) : t[i] \in {".", "e", "E"})
        /\ Texts = {} => col_type = NVARCHAR

\* a column of a NULL, an integer and a value with an exponent is FLOAT
C15_Witness ==
    /\ col_type = FLOAT
    /\ series = <<NA, Val(t_7), Val(<<"1", "e", "3">>)>>

\* C16: when every non-null value is an integral literal without leading
\* zero, the column is INTEGER exactly if every value lies within the signed
\* 64-bit range, the boundaries included, and TEXT otherwise.
C16_IntegerIffInRange ==
    (col_type # "none" /\ Texts # {}
        /\ \A t \in Texts : IsIntegral(t) /\ ~HasLeadingZero(t)) =>
            /\ col_type \in {BIGINT, NVARCHAR}
            /\ col_type = BIGINT <=> \A t \in Texts : InRange64(t)

(***************************************************************************)
(* Properties of sanitize_name, checked under SpecSanitize.                *)
(***************************************************************************)
\* C17: sanitize_name returns a name for every input, and applying it to its
\* own result changes nothing, also when the result carries the col_ prefix
\* and when it is unnamed.
C17_SanitizeIdempotent ==
    /\ Len(names) >= 2 => names[2] # << >>
    /\ Len(names) = 3 => names[3] = names[2]

\* the name "_7 A" has become col_7_a, and sanitizing col_7_a has been done
C17_Witness ==
    /\ Len(names) = 3
    /\ names[1] = <<"_", "7", " ", "A">>
    /\ names[2] = <<"c", "o", "l", "_", "7", "_", "a">>

(***************************************************************************)
(* Properties of the reader as the batch worker calls it, under Spec.      *)
(***************************************************************************)
\* the files of the queue that are readable CSV files
WellFormedCsv(file) == file.readable /\ lower(splitext(file.name)[2]) = ext_csv

\* C18: the batch worker, which hands the file's delimiter preference to the
\* reader, obtains the sheet of a well-formed CSV file and no error of the
\* reader: a failure recorded for such a file is none of the reader's.
C18_CsvReadWithDelimiter ==
    \A i \in 1..Len(failed_files) : \A k \in 1..Len(file_list) :
        (file_list[k].name = failed_files[i].filename /\ WellFormedCsv(file_list[k]))
            => failed_files[i].error \notin {"TypeError", "ReadError", "ValueError"}

(***************************************************************************)
(* Properties of the reader and the inference together, under SpecMain.    *)
(***************************************************************************)
\* a present cell whose text is empty after trimming
IsBlank(cell) == ~cell.na /\ strip(cell.s) = << >>
\* the column with its blank cells taken for NULL
BlanksAsNull(column) == [i \in 1..Len(column) |-> IF IsBlank(column[i]) THEN NA ELSE column[i]]

\* C19: no frame the reader returns holds a present cell whose text is empty
\* after trimming, and the type a table's column is created with is the one
\* inferred with such cells taken for NULL.
C19_BlankCellsAreNull ==
    /\ \A p \in 1..Len(dataframes) :
          \A i \in 1..NRows(dataframes[p].df) :
             \A j \in 1..Len(dataframes[p].df.columns) :
                ~IsBlank(dataframes[p].df.rows[i][j])
    /\ \A j \in 1..Len(call.df.columns) :
          call.df.columns[j] \in DOMAIN column_types =>
             column_types[call.df.columns[j]] =
                infer_column_type(BlanksAsNull(SourceColumn(j)))

(***************************************************************************)
(* Connection failures in a batch, under Spec.                             *)
(***************************************************************************)
\* the place of the file called filename in the queue
QueueIndex(filename) == CHOOSE k \in 1..Len(file_list) : file_list[k].name = filename

C21_FailuresIdentified ==
    /\ \A i \in 1..Len(failed_files) :
          failed_files[i].error \in {"Error", "ConnectionError"} =>
             /\ \E k \in 1..Len(file_list) : file_list[k].name = failed_files[i].filename
             /\ "sheet" \in DOMAIN failed_files[i]
    /\ (mpc = "raised" /\ stmts[Len(stmts)].op = "insert") =>
          /\ RaisedError.cause \in {"Error", "ConnectionError"}
          /\ "row" \in DOMAIN RaisedError
          /\ RaisedError.row = row_idx + 1

(***************************************************************************)
(* The window and its conversion thread, under SpecGui and SpecGuiFair.    *)
(***************************************************************************)
\* the enable_buttons messages waiting in the queue
EnablesQueued ==
    Cardinality({p \in 1..Len(message_queue) : message_queue[p] = "enable_buttons"})

\* C22: at most one convert_batch thread is alive; while it is, the buttons
\* are disabled and no enable_buttons message waits, so start_conversion
\* cannot run; a call of create_table_from_dataframe is in flight, and the
\* connection is open, only in the one live thread.
C22_OneBatchAtATime ==
    /\ running \in {0, 1}
    /\ running = 1 => buttons = "disabled" /\ EnablesQueued = 0
    /\ mpc \in {"drop", "create", "insert"} => running = 1
    /\ conn = "open" => running = 1 /\ bpc \in {"file", "sheets"}

\* the user has clicked in the queue while the thread, its connection open,
\* was about to read a file
C22_Witness ==
    /\ running = 1
    /\ conn = "open"
    /\ bpc = "file"
    /\ file_queue_selection = 1
    /\ buttons = "disabled"

\* C29: a batch puts one enable_buttons message on the queue when it ends,
\* however it ends, so that exactly one waits while the buttons are disabled
\* and no thread is alive, and none otherwise; and disabled buttons are
\* enabled again in the end.
C29_ButtonsEnabledAgain ==
    /\ [](/\ EnablesQueued <= 1
          /\ (buttons = "disabled" /\ running = 0) => EnablesQueued = 1
          /\ buttons = "normal" => EnablesQueued = 0)
    /\ (buttons = "disabled") ~> (buttons = "normal")

\* a batch whose connection could not be opened has ended and the buttons
\* have been enabled again, its show_error message still waiting
C29_Witness ==
    /\ bpc = "failed"
    /\ conn = "none"
    /\ running = 0
    /\ buttons = "normal"
    /\ message_queue = <<"show_error">>


(***************************************************************************)
(* The override store and the preview dialog, under SpecPreview.           *)
(***************************************************************************)
\* get(file, sheet) on a store: the entry, or an empty map
LookupIn(store, file_path, sheet_name) ==
    Get(Get(store, file_path, EmptyMap), sheet_name, EmptyMap)

\* the pairs a store has an entry for
PairsOf(store) ==
    {p \in (DOMAIN store) \X UNION {DOMAIN store[g] : g \in DOMAIN store} :
        p[2] \in DOMAIN store[p[1]]}

\* what the last Apply, Reset or Clear queue left for its pair
LastStoreHolds ==
    /\ gui_event.op = "apply" =>
          LookupIn(column_overrides, gui_event.file_path, gui_event.sheet_name)
             = gui_event.entry
    /\ gui_event.op = "reset" =>
          <<gui_event.file_path, gui_event.sheet_name>> \notin PairsOf(column_overrides)
    /\ gui_event.op \in {"none", "clear"} => PairsOf(column_overrides) = {}

\* a step changes what a pair holds only by being an Apply or a Reset of
\* that pair, or a Clear queue
OnlyItsPairChanges ==
    \A p \in PairsOf(column_overrides) \cup PairsOf(column_overrides') :
        LookupIn(column_overrides', p[1], p[2]) # LookupIn(column_overrides, p[1], p[2])
        => \/ /\ gui_event'.op = "apply"
              /\ <<gui_event'.file_path, gui_event'.sheet_name>> = p
              /\ LookupIn(column_overrides', p[1], p[2]) = gui_event'.entry
           \/ /\ gui_event'.op = "reset"
              /\ <<gui_event'.file_path, gui_event'.sheet_name>> = p
              /\ p \notin PairsOf(column_overrides')
           \/ /\ gui_event'.op = "clear"
              /\ PairsOf(column_overrides') = {}

C25_UnquotedIsNumeric ==
    \A p \in InsertPositions :
        \A j \in 1..Len(call.df.columns) :
            LET cell == SourceCell(InsertRank(p), j)
                value == stmts[p].values[j]
            IN  \/ cell.na /\ value = KwNULL
                \/ ~cell.na /\ value # << >> /\ value[1] = Quote
                \/ ~cell.na /\ IsSqlNumber(value)


\* non-empty, made of [a-z0-9_], not starting with a digit, no underscore at
\* either end
IsSanitized(name) ==
    /\ name # << >>
    /\ \A i \in 1..Len(name) : name[i] \in LowerLetters \cup Digits \cup {"_"}
    /\ name[1] \notin Digits \cup {"_"}
    /\ name[Len(name)] # "_"

\* C26: every column identifier of a CREATE TABLE statement is a sanitized
\* identifier, whether it is the reader's name of the column or the name a
\* rename override gives it.
C26_CreateNamesSanitized ==
    \A p \in 1..Len(stmts) :
        stmts[p].op = "create" =>
            \A j \in 1..Len(stmts[p].cols) : IsSanitized(stmts[p].cols[j].name)


C28_OneTablePerSheet ==
    LET file == file_list[1]
    IN  (/\ attempted # << >>
         /\ dataframes # << >>
         /\ lower(splitext(file.name)[2]) \in {ext_xls, ext_xlsx})
        => /\ Len(dataframes) = Len(file.sheets)
           /\ \A k \in 1..Len(file.sheets) :
                 dataframes[k].df = read_sheet(file.sheets[k])


====
